---- MODULE Spec2Model ----
(***************************************************************************)
(* Order ingest pipeline of the Shopify fraud/dispute dashboard:           *)
(*   csvService.parseShopifyCSV      text -> orders (classify, quarantine) *)
(*   validationService.validateOrder re-validation / recovery              *)
(*   storageService.saveOrdersToDb   merge-upsert into public.orders       *)
(* Strings are TLA+ strings handled character by character, as the         *)
(* JavaScript string methods of the source handle them.                    *)
(***************************************************************************)
EXTENDS Integers, Sequences, FiniteSets, TLC

(***************************************************************************)
(* JavaScript string primitives used by the source.                        *)
(***************************************************************************)

\* JS undefined / null (an absent optional field, a missing row)
Undefined == "<undefined>"
NoRow == [absent |-> TRUE]

CharAt(s, i) == SubSeq(s, i, i)

\* String.prototype.includes
Includes(s, sub) ==
    \E i \in 1..(Len(s) - Len(sub) + 1) : SubSeq(s, i, i + Len(sub) - 1) = sub

IsSpace(c) == c \in {" ", "\t", "\r", "\n"}

IsDigit(c) == c \in {"0", "1", "2", "3", "4", "5", "6", "7", "8", "9"}

LowerChar(c) ==
    CASE c = "A" -> "a" [] c = "B" -> "b" [] c = "C" -> "c" [] c = "D" -> "d"
      [] c = "E" -> "e" [] c = "F" -> "f" [] c = "G" -> "g" [] c = "H" -> "h"
      [] c = "I" -> "i" [] c = "J" -> "j" [] c = "K" -> "k" [] c = "L" -> "l"
      [] c = "M" -> "m" [] c = "N" -> "n" [] c = "O" -> "o" [] c = "P" -> "p"
      [] c = "Q" -> "q" [] c = "R" -> "r" [] c = "S" -> "s" [] c = "T" -> "t"
      [] c = "U" -> "u" [] c = "V" -> "v" [] c = "W" -> "w" [] c = "X" -> "x"
      [] c = "Y" -> "y" [] c = "Z" -> "z" [] OTHER -> c

\* String.prototype.toLowerCase: every character mapped, the two halves joined
RECURSIVE ToLowerCase(_)
ToLowerCase(s) ==
    IF Len(s) = 0 THEN ""
    ELSE IF Len(s) = 1 THEN LowerChar(s)
    ELSE LET h == Len(s) \div 2
         IN ToLowerCase(SubSeq(s, 1, h)) \o ToLowerCase(SubSeq(s, h + 1, Len(s)))

\* String.prototype.trim: from the first to the last non-space character
Trim(s) ==
    LET keep == {i \in 1..Len(s) : ~IsSpace(CharAt(s, i))}
    IN IF keep = {} THEN ""
       ELSE SubSeq(s, CHOOSE i \in keep : \A j \in keep : i <= j,
                      CHOOSE i \in keep : \A j \in keep : i >= j)

\* String.prototype.split(sep) for a one-character separator: the pieces
\* between consecutive separator positions
Split(s, sep) ==
    LET at == {i \in 1..Len(s) : CharAt(s, i) = sep}
        n == Cardinality(at)
        pos(k) == IF k = 0 THEN 0
                  ELSE IF k = n + 1 THEN Len(s) + 1
                  ELSE CHOOSE p \in at : Cardinality({q \in at : q < p}) = k - 1
    IN [k \in 1..(n + 1) |-> SubSeq(s, pos(k - 1) + 1, pos(k) - 1)]

\* Array.prototype.join
RECURSIVE Join(_, _)
Join(parts, sep) ==
    IF Len(parts) = 0 THEN ""
    ELSE IF Len(parts) = 1 THEN parts[1]
    ELSE parts[1] \o sep \o Join(Tail(parts), sep)

\* Array.prototype.indexOf, 1-based; 0 stands for JavaScript's -1
IndexOf(arr, x) ==
    IF \E i \in 1..Len(arr) : arr[i] = x
    THEN CHOOSE i \in 1..Len(arr) : arr[i] = x /\ \A j \in 1..(i - 1) : arr[j] # x
    ELSE 0

\* Array.prototype.includes
ArrIncludes(arr, x) == \E i \in 1..Len(arr) : arr[i] = x

\* Array.prototype.filter(t => t): drop empty strings
RECURSIVE FilterNonEmpty(_)
FilterNonEmpty(arr) ==
    IF Len(arr) = 0 THEN <<>>
    ELSE IF arr[1] = "" THEN FilterNonEmpty(Tail(arr))
    ELSE <<arr[1]>> \o FilterNonEmpty(Tail(arr))

(***************************************************************************)
(* csvService.ts                                                           *)
(***************************************************************************)

\* parseCSVLine: the scanning loop, position i, the fields pushed so far,
\* the field being built and the quote flag.  A run of characters that are
\* neither quote nor comma takes the loop's last branch once per character;
\* the run up to the next quote or comma (position j) is appended in one go.
RECURSIVE ParseCSVLineFrom(_, _, _, _, _)
ParseCSVLineFrom(line, i, result, current, inQuotes) ==
    IF i > Len(line) THEN Append(result, current)
    ELSE LET char == CharAt(line, i) IN
         IF char = "\""
         THEN IF inQuotes /\ i + 1 <= Len(line) /\ CharAt(line, i + 1) = "\""
              THEN ParseCSVLineFrom(line, i + 2, result, current \o "\"", inQuotes)
              ELSE ParseCSVLineFrom(line, i + 1, result, current, ~inQuotes)
         ELSE IF char = "," /\ ~inQuotes
              THEN ParseCSVLineFrom(line, i + 1, Append(result, current), "", inQuotes)
              ELSE LET stops == {k \in (i + 1)..Len(line) : CharAt(line, k) \in {"\"", ","}}
                       j == IF stops = {} THEN Len(line) + 1
                            ELSE CHOOSE k \in stops : \A m \in stops : k <= m
                   IN ParseCSVLineFrom(line, j, result, current \o SubSeq(line, i, j - 1),
                                       inQuotes)

\* a line reader that splits at every comma
parseCSVLineEveryComma(line) == Split(line, ",")

parseCSVLine(line) == ParseCSVLineFrom(line, 1, <<>>, "", FALSE)

\* /^[^\s@]+@[^\s@]+\.[^\s@]+$/
isValidEmail(email) ==
    \E a \in 2..Len(email) :
      /\ CharAt(email, a) = "@"
      /\ \A i \in 1..Len(email) :
            i # a => (~IsSpace(CharAt(email, i)) /\ CharAt(email, i) # "@")
      /\ \E d \in (a + 2)..(Len(email) - 1) : CharAt(email, d) = "."

\* /\d/
hasNumbers(str) == \E i \in 1..Len(str) : IsDigit(CharAt(str, i))

DigitVal(c) ==
    CASE c = "0" -> 0 [] c = "1" -> 1 [] c = "2" -> 2 [] c = "3" -> 3 [] c = "4" -> 4
      [] c = "5" -> 5 [] c = "6" -> 6 [] c = "7" -> 7 [] c = "8" -> 8 [] c = "9" -> 9

AllDigits(s) == \A i \in 1..Len(s) : IsDigit(CharAt(s, i))

RECURSIVE DigitsVal(_)
DigitsVal(s) ==
    IF Len(s) = 0 THEN 0
    ELSE 10 * DigitsVal(SubSeq(s, 1, Len(s) - 1)) + DigitVal(CharAt(s, Len(s)))

\* The ISO calendar date YYYY-MM-DD, the one textual form Date.parse is
\* specified to accept
IsIsoDate(s) ==
    /\ Len(s) = 10
    /\ CharAt(s, 5) = "-" /\ CharAt(s, 8) = "-"
    /\ AllDigits(SubSeq(s, 1, 4)) /\ AllDigits(SubSeq(s, 6, 7)) /\ AllDigits(SubSeq(s, 9, 10))
    /\ DigitsVal(SubSeq(s, 6, 7)) \in 1..12
    /\ DigitsVal(SubSeq(s, 9, 10)) \in 1..31

MonthAbbr(m) ==
    CASE m = 1 -> "Jan" [] m = 2 -> "Feb" [] m = 3 -> "Mar" [] m = 4 -> "Apr"
      [] m = 5 -> "May" [] m = 6 -> "Jun" [] m = 7 -> "Jul" [] m = 8 -> "Aug"
      [] m = 9 -> "Sep" [] m = 10 -> "Oct" [] m = 11 -> "Nov" [] m = 12 -> "Dec"

\* new Date(d).toLocaleDateString('en-US', {month:'short', day:'numeric',
\* hour:'2-digit', minute:'2-digit'}) of an ISO calendar date, read in UTC
toLocaleDateString(d) ==
    IF IsIsoDate(d)
    THEN MonthAbbr(DigitsVal(SubSeq(d, 6, 7))) \o " "
         \o (IF CharAt(d, 9) = "0" THEN CharAt(d, 10) ELSE SubSeq(d, 9, 10))
         \o ", 12:00 AM"
    ELSE "Invalid Date"

\* The display form toLocaleDateString produces: month, day, time but no year
IsDisplayDate(s) ==
    /\ Len(s) \in 15..16
    /\ SubSeq(s, Len(s) - 9, Len(s)) = ", 12:00 AM"
    /\ \E m \in 1..12 : SubSeq(s, 1, 4) = MonthAbbr(m) \o " "
    /\ AllDigits(SubSeq(s, 5, Len(s) - 10))
    /\ CharAt(s, 5) # "0"
    /\ DigitsVal(SubSeq(s, 5, Len(s) - 10)) \in 1..31

(***************************************************************************)
(* State                                                                   *)
(***************************************************************************)
VARIABLES
    lenientDateParse, \* whether this engine's Date.parse accepts a date without a year
    user,             \* supabase.auth.getUser(): the signed-in owner, or NoUser
    db,               \* public.orders: db[owner][id] is the row keyed (user_id, id)
    disputes,         \* public.disputes: disputes[owner][order_id] is the rebuttal_text
    inflight,         \* per invocation of saveOrdersToDb under way, what it has read
    orders,           \* the order list the application holds in memory
    call,             \* the last operation run and its arguments
    saved,            \* per owner, the batches given to saveOrdersToDb since the last purge
    origin,           \* per stored order, the category of the CSV import it descends from
    nops              \* number of operations run

vars == <<lenientDateParse, user, db, disputes, inflight, orders, call, saved, origin,
          nops>>

\* isValidDate: !isNaN(Date.parse(dateStr)).  Date.parse is specified for the
\* ISO form only; a date without a year is accepted by some engines and
\* rejected by others: lenient says which kind of engine runs the code.
isValidDate(dateStr, lenient) ==
    IF IsIsoDate(dateStr) THEN TRUE
    ELSE IF IsDisplayDate(dateStr) THEN lenient
    ELSE FALSE

\* a conversion that accepts a string of digits only
parseIntWholeField(s) ==
    IF s # "" /\ AllDigits(s) THEN [nan |-> FALSE, val |-> DigitsVal(s)]
    ELSE [nan |-> TRUE, val |-> 0]

\* parseInt of a trimmed string: sign, then the leading run of digits
RECURSIVE DigitPrefix(_)
DigitPrefix(s) ==
    IF Len(s) > 0 /\ IsDigit(CharAt(s, 1))
    THEN CharAt(s, 1) \o DigitPrefix(SubSeq(s, 2, Len(s)))
    ELSE ""

parseInt(s) ==
    LET neg == Len(s) > 0 /\ CharAt(s, 1) = "-"
        body == IF Len(s) > 0 /\ CharAt(s, 1) \in {"-", "+"} THEN SubSeq(s, 2, Len(s)) ELSE s
        digits == DigitPrefix(body)
    IN IF digits = "" THEN [nan |-> TRUE, val |-> 0]
       ELSE [nan |-> FALSE, val |-> IF neg THEN 0 - DigitsVal(digits) ELSE DigitsVal(digits)]

DisputeStatus == {"None", "Needs Response", "Under Review", "Won", "Lost"}

\* the operator-facing category selector
ImportCategory ==
    {"AUTO", "RISK", "DISPUTE_OPEN", "DISPUTE_SUBMITTED", "DISPUTE_WON", "DISPUTE_LOST"}

MapSeq(arr, F(_)) == [i \in 1..Len(arr) |-> F(arr[i])]

\* a column lookup over the header row as written
getIndexAsWritten(rawHeaders, name) == IndexOf(rawHeaders, name)

\* headers.indexOf(name.toLowerCase()) over the trimmed, lower-cased header row
getIndex(rawHeaders, name) ==
    IndexOf(MapSeq(rawHeaders, LAMBDA h : ToLowerCase(Trim(h))), ToLowerCase(name))

\* val(index): row[index] ? row[index].trim() : ''
val(row, index) ==
    IF index >= 1 /\ index <= Len(row) /\ row[index] # "" THEN Trim(row[index]) ELSE ""

\* t.trim().replace(/^"|"$/g, '')
StripQuotes(t) ==
    LET a == IF Len(t) > 0 /\ CharAt(t, 1) = "\"" THEN SubSeq(t, 2, Len(t)) ELSE t
    IN IF Len(a) > 0 /\ CharAt(a, Len(a)) = "\"" THEN SubSeq(a, 1, Len(a) - 1) ELSE a

\* rawTags ? rawTags.split(',').map(...).filter(t => t) : []
tagsList(rawTags) ==
    IF rawTags = "" THEN <<>>
    ELSE FilterNonEmpty(MapSeq(Split(rawTags, ","), LAMBDA t : StripQuotes(Trim(t))))

\* structural checks that require tags under every category
errorReasonsTagsAlways(rawId, rawDate, rawEmail, rawTags, category, lenient) ==
    (IF rawId = "" \/ ~hasNumbers(rawId) THEN <<"Invalid Order #">> ELSE <<>>)
    \o (IF rawDate = "" \/ ~isValidDate(rawDate, lenient) THEN <<"Invalid Date">> ELSE <<>>)
    \o (IF rawEmail = "" \/ ~isValidEmail(rawEmail) THEN <<"Invalid Email">> ELSE <<>>)
    \o (IF rawTags = "" \/ Len(Trim(rawTags)) = 0 THEN <<"Missing Tags">> ELSE <<>>)

\* the four structural checks of a row, in the order the reasons are pushed
errorReasons(rawId, rawDate, rawEmail, rawTags, category, lenient) ==
    (IF rawId = "" \/ ~hasNumbers(rawId) THEN <<"Invalid Order #">> ELSE <<>>)
    \o (IF rawDate = "" \/ ~isValidDate(rawDate, lenient) THEN <<"Invalid Date">> ELSE <<>>)
    \o (IF rawEmail = "" \/ ~isValidEmail(rawEmail) THEN <<"Invalid Email">> ELSE <<>>)
    \o (IF category = "AUTO" /\ (rawTags = "" \/ Len(Trim(rawTags)) = 0)
        THEN <<"Missing Tags">> ELSE <<>>)

\* position of key in the insertion-ordered orderMap, 0 if absent
MapPos(orderMap, key) ==
    IF \E k \in 1..Len(orderMap) : orderMap[k].id = key
    THEN CHOOSE k \in 1..Len(orderMap) : orderMap[k].id = key
    ELSE 0

\* one iteration of the row loop: line number i (0-based, as in the source)
GroupRow(orderMap, rawHeaders, line0, i, category, lenient) ==
    LET line == Trim(line0) IN
    IF line = "" THEN orderMap
    ELSE
    LET row == parseCSVLine(line)
        rawId == val(row, getIndex(rawHeaders, "Name"))
        rawDate == val(row, getIndex(rawHeaders, "Created at"))
        rawEmail == val(row, getIndex(rawHeaders, "Email"))
        rawTags == val(row, getIndex(rawHeaders, "Tags"))
        reasons == errorReasons(rawId, rawDate, rawEmail, rawTags, category, lenient)
        mapId == IF rawId # "" THEN rawId ELSE "BAD-ROW-" \o ToString(i)
        csvRisk == ToLowerCase(val(row, getIndex(rawHeaders, "Risk Level")))
        extraData == [header \in {rawHeaders[n] : n \in 1..Len(rawHeaders)} |->
                         val(row, CHOOSE n \in 1..Len(rawHeaders) :
                                     /\ rawHeaders[n] = header
                                     /\ \A m \in (n + 1)..Len(rawHeaders) :
                                           rawHeaders[m] # header)]
        entry == [id |-> mapId,
                  date |-> IF rawDate # "" THEN rawDate ELSE "N/A",
                  email |-> IF rawEmail # "" THEN rawEmail ELSE "N/A",
                  tags |-> tagsList(rawTags),
                  nativeRisk |-> csvRisk \in {"high", "medium"},
                  itemsCount |-> 0,
                  additional_data |-> extraData,
                  isInvalid |-> Len(reasons) > 0,
                  importError |-> Join(reasons, ", ")]
        withEntry == IF MapPos(orderMap, mapId) = 0 THEN Append(orderMap, entry) ELSE orderMap
        k == MapPos(withEntry, mapId)
        rawQty == val(row, getIndex(rawHeaders, "Lineitem quantity"))
        qty == parseInt(IF rawQty # "" THEN rawQty ELSE "0")
        add == IF ~qty.nan /\ qty.val > 0 THEN qty.val ELSE 0
    IN [withEntry EXCEPT ![k].itemsCount = @ + add]

RECURSIVE GroupRows(_, _, _, _, _, _)
GroupRows(orderMap, rawHeaders, lines, i, category, lenient) ==
    IF i + 1 > Len(lines) THEN orderMap
    ELSE GroupRows(GroupRow(orderMap, rawHeaders, lines[i + 1], i, category, lenient),
                   rawHeaders, lines, i + 1, category, lenient)

\* a keyword search over the tags as written, not case-folded
SomeTagIncludesAsWritten(tags, kw) ==
    \E i \in 1..Len(tags) : Includes(tags[i], kw)

\* lowerTags.some(t => t.includes(kw))
SomeTagIncludes(tags, kw) ==
    \E i \in 1..Len(tags) : Includes(ToLowerCase(tags[i]), kw)

\* a classifier whose explicit table raises the risk flag for a submitted
\* dispute, as the recovery branch of validateOrder does
classifySubmittedIsRisk(tags, nativeRisk, category) ==
    LET base == [disputeStatus |-> "None", isHighRisk |-> nativeRisk,
                 importCat |-> category, injectedTag |-> ""]
    IN CASE category = "DISPUTE_OPEN" ->
              [base EXCEPT !.disputeStatus = "Needs Response", !.isHighRisk = TRUE,
                           !.injectedTag = "Import: Open Dispute"]
         [] category = "DISPUTE_SUBMITTED" ->
              [base EXCEPT !.disputeStatus = "Under Review", !.isHighRisk = TRUE,
                           !.injectedTag = "Import: Submitted"]
         [] category = "DISPUTE_WON" ->
              [base EXCEPT !.disputeStatus = "Won", !.injectedTag = "Import: Won"]
         [] category = "DISPUTE_LOST" ->
              [base EXCEPT !.disputeStatus = "Lost", !.injectedTag = "Import: Lost"]
         [] category = "RISK" ->
              [base EXCEPT !.isHighRisk = TRUE, !.injectedTag = "Import: Fraud"]
         [] OTHER ->
              IF SomeTagIncludes(tags, "won")
              THEN [base EXCEPT !.disputeStatus = "Won", !.importCat = "DISPUTE_WON"]
              ELSE IF SomeTagIncludes(tags, "lost")
              THEN [base EXCEPT !.disputeStatus = "Lost", !.importCat = "DISPUTE_LOST"]
              ELSE IF SomeTagIncludes(tags, "submitted") \/ SomeTagIncludes(tags, "review")
              THEN [base EXCEPT !.disputeStatus = "Under Review",
                                !.importCat = "DISPUTE_SUBMITTED"]
              ELSE IF SomeTagIncludes(tags, "chargeback") \/ SomeTagIncludes(tags, "dispute")
              THEN [base EXCEPT !.disputeStatus = "Needs Response",
                                !.importCat = "DISPUTE_OPEN", !.isHighRisk = TRUE]
              ELSE IF SomeTagIncludes(tags, "fraud") \/ SomeTagIncludes(tags, "risk")
                      \/ SomeTagIncludes(tags, "high")
              THEN [base EXCEPT !.isHighRisk = TRUE, !.importCat = "RISK"]
              ELSE base

\* the classifier: explicit table, else tag auto-detection in priority order
classify(tags, nativeRisk, category) ==
    LET base == [disputeStatus |-> "None", isHighRisk |-> nativeRisk,
                 importCat |-> category, injectedTag |-> ""]
    IN CASE category = "DISPUTE_OPEN" ->
              [base EXCEPT !.disputeStatus = "Needs Response", !.isHighRisk = TRUE,
                           !.injectedTag = "Import: Open Dispute"]
         [] category = "DISPUTE_SUBMITTED" ->
              [base EXCEPT !.disputeStatus = "Under Review", !.injectedTag = "Import: Submitted"]
         [] category = "DISPUTE_WON" ->
              [base EXCEPT !.disputeStatus = "Won", !.injectedTag = "Import: Won"]
         [] category = "DISPUTE_LOST" ->
              [base EXCEPT !.disputeStatus = "Lost", !.injectedTag = "Import: Lost"]
         [] category = "RISK" ->
              [base EXCEPT !.isHighRisk = TRUE, !.injectedTag = "Import: Fraud"]
         [] OTHER ->
              IF SomeTagIncludes(tags, "won")
              THEN [base EXCEPT !.disputeStatus = "Won", !.importCat = "DISPUTE_WON"]
              ELSE IF SomeTagIncludes(tags, "lost")
              THEN [base EXCEPT !.disputeStatus = "Lost", !.importCat = "DISPUTE_LOST"]
              ELSE IF SomeTagIncludes(tags, "submitted") \/ SomeTagIncludes(tags, "review")
              THEN [base EXCEPT !.disputeStatus = "Under Review",
                                !.importCat = "DISPUTE_SUBMITTED"]
              ELSE IF SomeTagIncludes(tags, "chargeback") \/ SomeTagIncludes(tags, "dispute")
              THEN [base EXCEPT !.disputeStatus = "Needs Response",
                                !.importCat = "DISPUTE_OPEN", !.isHighRisk = TRUE]
              ELSE IF SomeTagIncludes(tags, "fraud") \/ SomeTagIncludes(tags, "risk")
                      \/ SomeTagIncludes(tags, "high")
              THEN [base EXCEPT !.isHighRisk = TRUE, !.importCat = "RISK"]
              ELSE base

\* an import that pushes the marker tag without looking for it
finalTagsAlwaysPush(tags, injectedTag) ==
    IF injectedTag # "" THEN Append(tags, injectedTag) ELSE tags

\* an import that adds no marker tag
finalTagsNoMarker(tags, injectedTag) == tags

\* finalTags: the marker tag is pushed unless already present
finalTags(tags, injectedTag) ==
    IF injectedTag # "" /\ ~ArrIncludes(tags, injectedTag) THEN Append(tags, injectedTag)
    ELSE tags

\* a map callback that remembers the operator's selector, not the
\* classifier's category
buildOrderKeepsSelector(o, category) ==
    LET c == classify(o.tags, o.nativeRisk, category)
        tags == finalTags(o.tags, c.injectedTag)
    IN IF o.isInvalid
       THEN [id |-> o.id, date |-> o.date, email |-> o.email, itemsCount |-> o.itemsCount,
             tags |-> tags, isHighRisk |-> FALSE, disputeStatus |-> "None",
             import_category |-> "INVALID", original_category |-> category,
             import_error |-> o.importError, additional_data |-> o.additional_data]
       ELSE [id |-> o.id, date |-> toLocaleDateString(o.date), email |-> o.email,
             itemsCount |-> o.itemsCount,
             tags |-> tags, isHighRisk |-> c.isHighRisk, disputeStatus |-> c.disputeStatus,
             import_category |-> c.importCat, original_category |-> Undefined,
             import_error |-> Undefined, additional_data |-> o.additional_data]

\* the map callback: one grouped entry to one Order
buildOrder(o, category) ==
    LET c == classify(o.tags, o.nativeRisk, category)
        tags == finalTags(o.tags, c.injectedTag)
    IN IF o.isInvalid
       THEN [id |-> o.id, date |-> o.date, email |-> o.email, itemsCount |-> o.itemsCount,
             tags |-> tags, isHighRisk |-> FALSE, disputeStatus |-> "None",
             import_category |-> "INVALID", original_category |-> c.importCat,
             import_error |-> o.importError, additional_data |-> o.additional_data]
       ELSE [id |-> o.id, date |-> toLocaleDateString(o.date), email |-> o.email,
             itemsCount |-> o.itemsCount,
             tags |-> tags, isHighRisk |-> c.isHighRisk, disputeStatus |-> c.disputeStatus,
             import_category |-> c.importCat, original_category |-> Undefined,
             import_error |-> Undefined, additional_data |-> o.additional_data]

\* parseShopifyCSV: [error, orders]; error # "" is the exception thrown
parseShopifyCSV(csvText, category, lenient) ==
    LET lines == Split(Trim(csvText), "\n") IN
    IF Len(lines) < 2
    THEN [error |-> "CSV file is empty or invalid.", orders |-> <<>>]
    ELSE LET rawHeaders == parseCSVLine(lines[1]) IN
         IF getIndex(rawHeaders, "Name") = 0
         THEN [error |-> "Invalid CSV: Missing 'Name' column.", orders |-> <<>>]
         ELSE [error |-> "",
               orders |-> MapSeq(GroupRows(<<>>, rawHeaders, lines, 1, category, lenient),
                                 LAMBDA o : buildOrder(o, category))]

(***************************************************************************)
(* validationService (the last version in shopifyService.ts)               *)
(***************************************************************************)

\* determineCategoryFromTags: null is NoClass
NoClass == [category |-> "<null>", status |-> "None", isHighRisk |-> FALSE]

determineCategoryFromTags(tags) ==
    IF SomeTagIncludes(tags, "won")
    THEN [category |-> "DISPUTE_WON", status |-> "Won", isHighRisk |-> FALSE]
    ELSE IF SomeTagIncludes(tags, "lost")
    THEN [category |-> "DISPUTE_LOST", status |-> "Lost", isHighRisk |-> FALSE]
    ELSE IF SomeTagIncludes(tags, "submitted") \/ SomeTagIncludes(tags, "under review")
    THEN [category |-> "DISPUTE_SUBMITTED", status |-> "Under Review", isHighRisk |-> TRUE]
    ELSE IF SomeTagIncludes(tags, "open") \/ SomeTagIncludes(tags, "chargeback")
            \/ SomeTagIncludes(tags, "dispute")
    THEN [category |-> "DISPUTE_OPEN", status |-> "Needs Response", isHighRisk |-> TRUE]
    ELSE NoClass

\* the checks of validateOrder, in the order the reasons are pushed
validateReasons(order, lenient) ==
    (IF order.id = "" \/ ~hasNumbers(order.id) THEN <<"Invalid Order #">> ELSE <<>>)
    \o (IF order.date = "" \/ ~isValidDate(order.date, lenient) THEN <<"Invalid Date">> ELSE <<>>)
    \o (IF order.email = "" \/ ~isValidEmail(order.email) THEN <<"Invalid Email">> ELSE <<>>)
    \o (IF Len(order.tags) = 0 THEN <<"Missing Tags">> ELSE <<>>)

\* a quarantine branch that forgets what an order already quarantined was
prevCategoryForgets(order) ==
    IF order.import_category # "INVALID" THEN order.import_category
    ELSE Undefined

\* a quarantine branch that always records the current category
prevCategoryCurrent(order) == order.import_category

\* prevCategory of the quarantine branch
prevCategory(order) ==
    IF order.import_category # "INVALID" THEN order.import_category
    ELSE order.original_category

\* a recovery branch that never looks at the tags
recoveryClassIgnoresTags(order) ==
    LET targetCategory == order.original_category IN
    CASE targetCategory = "DISPUTE_WON" ->
            [category |-> "DISPUTE_WON", status |-> "Won", isHighRisk |-> FALSE]
      [] targetCategory = "DISPUTE_LOST" ->
            [category |-> "DISPUTE_LOST", status |-> "Lost", isHighRisk |-> FALSE]
      [] targetCategory = "DISPUTE_SUBMITTED" ->
            [category |-> "DISPUTE_SUBMITTED", status |-> "Under Review", isHighRisk |-> TRUE]
      [] targetCategory = "DISPUTE_OPEN" ->
            [category |-> "DISPUTE_OPEN", status |-> "Needs Response", isHighRisk |-> TRUE]
      [] OTHER -> [category |-> "RISK", status |-> "None", isHighRisk |-> TRUE]

\* a recovery branch that asks the tags first and the remembered category last
recoveryClassTagsFirst(order) ==
    LET tagClass == determineCategoryFromTags(order.tags)
        targetCategory == order.original_category IN
    IF tagClass # NoClass THEN tagClass
    ELSE CASE targetCategory = "DISPUTE_WON" ->
                [category |-> "DISPUTE_WON", status |-> "Won", isHighRisk |-> FALSE]
           [] targetCategory = "DISPUTE_LOST" ->
                [category |-> "DISPUTE_LOST", status |-> "Lost", isHighRisk |-> FALSE]
           [] targetCategory = "DISPUTE_SUBMITTED" ->
                [category |-> "DISPUTE_SUBMITTED", status |-> "Under Review",
                 isHighRisk |-> TRUE]
           [] targetCategory = "DISPUTE_OPEN" ->
                [category |-> "DISPUTE_OPEN", status |-> "Needs Response", isHighRisk |-> TRUE]
           [] OTHER -> [category |-> "RISK", status |-> "None", isHighRisk |-> TRUE]

\* a recovery branch without the last-resort RISK bucket
recoveryClassNoFallback(order) ==
    LET targetCategory == order.original_category IN
    IF targetCategory \notin {Undefined, "", "AUTO", "INVALID"}
    THEN recoveryClassIgnoresTags(order)
    ELSE determineCategoryFromTags(order.tags)

\* classification of the recovery branch
recoveryClass(order) ==
    LET targetCategory == order.original_category IN
    IF targetCategory \notin {Undefined, "", "AUTO", "INVALID"}
    THEN CASE targetCategory = "DISPUTE_WON" ->
                [category |-> "DISPUTE_WON", status |-> "Won", isHighRisk |-> FALSE]
           [] targetCategory = "DISPUTE_LOST" ->
                [category |-> "DISPUTE_LOST", status |-> "Lost", isHighRisk |-> FALSE]
           [] targetCategory = "DISPUTE_SUBMITTED" ->
                [category |-> "DISPUTE_SUBMITTED", status |-> "Under Review",
                 isHighRisk |-> TRUE]
           [] targetCategory = "DISPUTE_OPEN" ->
                [category |-> "DISPUTE_OPEN", status |-> "Needs Response", isHighRisk |-> TRUE]
           [] OTHER -> [category |-> "RISK", status |-> "None", isHighRisk |-> TRUE]
    ELSE LET tagClass == determineCategoryFromTags(order.tags)
         IN IF tagClass # NoClass THEN tagClass
            ELSE [category |-> "RISK", status |-> "None", isHighRisk |-> TRUE]

\* a quarantine branch that leaves the risk flag and the dispute status alone
validateOrderKeepsFlags(order, lenient) ==
    LET reasons == validateReasons(order, lenient) IN
    IF Len(reasons) > 0
    THEN [order EXCEPT !.import_category = "INVALID",
                       !.original_category = prevCategory(order),
                       !.import_error = Join(reasons, ", ")]
    ELSE IF order.import_category = "INVALID"
    THEN LET classification == recoveryClass(order)
         IN [order EXCEPT !.import_category = classification.category,
                          !.import_error = Undefined,
                          !.disputeStatus = classification.status,
                          !.isHighRisk = classification.isHighRisk]
    ELSE order

validateOrder(order, lenient) ==
    LET reasons == validateReasons(order, lenient) IN
    IF Len(reasons) > 0
    THEN [order EXCEPT !.import_category = "INVALID",
                       !.original_category = prevCategory(order),
                       !.import_error = Join(reasons, ", "),
                       !.isHighRisk = FALSE,
                       !.disputeStatus = "None"]
    ELSE IF order.import_category = "INVALID"
    THEN LET classification == recoveryClass(order)
         IN [order EXCEPT !.import_category = classification.category,
                          !.import_error = Undefined,
                          !.disputeStatus = classification.status,
                          !.isHighRisk = classification.isHighRisk]
    ELSE order

\* applyFixesAndRevalidate: updates is a record of the fields being edited
applyFixesAndRevalidate(original, updates, lenient) ==
    validateOrder([f \in DOMAIN original |->
                      IF f \in DOMAIN updates THEN updates[f] ELSE original[f]], lenient)

\* an approval that guesses the RISK bucket instead of refusing
forceApproveOrderOrRisk(order) ==
    LET classification == determineCategoryFromTags(order.tags) IN
    IF classification = NoClass
    THEN [error |-> "",
          order |-> [order EXCEPT !.import_category = "RISK", !.disputeStatus = "None",
                                  !.isHighRisk = TRUE, !.import_error = Undefined]]
    ELSE [error |-> "",
          order |-> [order EXCEPT !.import_category = classification.category,
                                  !.disputeStatus = classification.status,
                                  !.isHighRisk = classification.isHighRisk,
                                  !.import_error = Undefined]]

\* forceApproveOrder: [error, order]; error # "" is the exception thrown
forceApproveOrder(order) ==
    LET classification == determineCategoryFromTags(order.tags) IN
    IF classification = NoClass
    THEN [error |-> "Cannot determine order type.", order |-> order]
    ELSE [error |-> "",
          order |-> [order EXCEPT !.import_category = classification.category,
                                  !.disputeStatus = classification.status,
                                  !.isHighRisk = classification.isHighRisk,
                                  !.import_error = Undefined]]

(***************************************************************************)
(* storageService.ts                                                       *)
(***************************************************************************)

Null == "<null>"

\* statusRank; a key outside the table has no rank (undefined), shown as -1
statusRank(s) ==
    CASE s = "none" -> 0 [] s = "open" -> 1 [] s = "submitted" -> 2
      [] s = "won" -> 3 [] s = "lost" -> 3 [] s = "protected" -> 2
      [] OTHER -> -1

mapDisputeStatus(status) ==
    CASE status = "Needs Response" -> "open"
      [] status = "Under Review" -> "submitted"
      [] status = "Won" -> "won"
      [] status = "Lost" -> "lost"
      [] OTHER -> "none"

\* a source derivation that files every order without dispute under orders
inferImportSourceNoRisk(order) ==
    CASE order.disputeStatus = "Needs Response" -> "dispute_open"
      [] order.disputeStatus = "Under Review" -> "dispute_submitted"
      [] order.disputeStatus = "Won" -> "dispute_won"
      [] order.disputeStatus = "Lost" -> "dispute_lost"
      [] OTHER -> "orders"

inferImportSource(order) ==
    CASE order.disputeStatus = "Needs Response" -> "dispute_open"
      [] order.disputeStatus = "Under Review" -> "dispute_submitted"
      [] order.disputeStatus = "Won" -> "dispute_won"
      [] order.disputeStatus = "Lost" -> "dispute_lost"
      [] OTHER -> IF order.isHighRisk THEN "fraud" ELSE "orders"

\* a merge that keeps the first status a row was given
latestStatusKeepsFirst(prevStatus, newStatus) ==
    IF prevStatus # "none" THEN prevStatus ELSE newStatus

\* a merge that takes the incoming status whatever the ranks
latestStatusLastWins(prevStatus, newStatus) == newStatus

\* statusRank[newStatus] >= statusRank[prevStatus] ? newStatus : prevStatus
latestStatus(prevStatus, newStatus) ==
    IF statusRank(newStatus) >= statusRank(prevStatus) THEN newStatus ELSE prevStatus

\* a merge that takes the incoming risk label, null included
latestRiskLastWins(prevRisk, newRisk) == newRisk

\* newRisk || prevRisk
latestRisk(prevRisk, newRisk) == IF newRisk # Null THEN newRisk ELSE prevRisk

\* a sources map that flips the key instead of setting it
newSourcesToggle(prevSources, inferredSource) ==
    IF inferredSource \in prevSources THEN prevSources \ {inferredSource}
    ELSE prevSources \cup {inferredSource}

\* a sources map rebuilt from the incoming order alone
newSourcesLatestOnly(prevSources, inferredSource) == {inferredSource}

\* { ...prevSources, [inferredSource]: true }; every value stored is true,
\* so the map is the set of its keys
newSources(prevSources, inferredSource) == prevSources \cup {inferredSource}

\* one element of upsertRows: existing is the row read in step 1, or NoRow
upsertRow(existing, order) ==
    LET prevStatus == IF existing # NoRow THEN existing.latest_dispute_status ELSE "none"
        prevRisk == IF existing # NoRow THEN existing.latest_risk_label ELSE Null
        prevSources == IF existing # NoRow THEN existing.sources ELSE {}
    IN [latest_dispute_status |-> latestStatus(prevStatus, mapDisputeStatus(order.disputeStatus)),
        latest_risk_label |-> latestRisk(prevRisk, IF order.isHighRisk THEN "high" ELSE Null),
        sources |-> newSources(prevSources, inferImportSource(order)),
        data |-> order]

\* the row of one owner's table under id, NoRow if there is none
RowOf(table, id) == IF id \in DOMAIN table THEN table[id] ELSE NoRow

BatchIds(batch) == {batch[i].id : i \in 1..Len(batch)}

\* steps 1-3 of saveOrdersToDb on one owner's table: every row of the batch is
\* merged with the row read before the upsert, then upserted on (user_id, id).
\* The ids of a batch are distinct in every caller (a Map's values, a table's rows).
mergeUpsert(table, batch) ==
    [id \in DOMAIN table \cup BatchIds(batch) |->
        IF id \in BatchIds(batch)
        THEN upsertRow(RowOf(table, id), batch[CHOOSE i \in 1..Len(batch) : batch[i].id = id])
        ELSE table[id]]

\* the elements of a finite set in some fixed order
RECURSIVE SetToSeq(_)
SetToSeq(S) ==
    IF S = {} THEN <<>>
    ELSE LET x == CHOOSE x \in S : TRUE IN <<x>> \o SetToSeq(S \ {x})

\* loadOrdersFromDb: the data column of every row of the owner (the source
\* orders them by updated_at, which no caller relies on)
loadOrdersFromDb(table) == MapSeq(SetToSeq(DOMAIN table), LAMBDA id : table[id].data)

(***************************************************************************)
(* shopifyService.ts: the live feed mapped to the application's Order      *)
(***************************************************************************)

\* an order of the live feed carries no additional_data
NoData == <<>>

determineDisputeStatus(tags) ==
    IF SomeTagIncludes(tags, "won") THEN "Won"
    ELSE IF SomeTagIncludes(tags, "lost") THEN "Lost"
    ELSE IF SomeTagIncludes(tags, "chargeback") \/ SomeTagIncludes(tags, "dispute")
    THEN IF SomeTagIncludes(tags, "submitted") \/ SomeTagIncludes(tags, "review")
            \/ SomeTagIncludes(tags, "pending")
         THEN "Under Review"
         ELSE "Needs Response"
    ELSE "None"

\* node: [name, createdAt, email, tags, riskLevel, cancelReason, lineItems]
mapGraphQLToAppOrder(node) ==
    LET nativeRisk == node.riskLevel \in {"HIGH", "MEDIUM"}
        tagRisk == \E i \in 1..Len(node.tags) :
                      ToLowerCase(node.tags[i]) \in {"fraud", "high-risk", "risk"}
        cancelRisk == node.cancelReason = "fraud"
    IN [id |-> node.name, date |-> toLocaleDateString(node.createdAt), email |-> node.email,
        itemsCount |-> node.lineItems,
        tags |-> node.tags, isHighRisk |-> nativeRisk \/ tagRisk \/ cancelRisk,
        disputeStatus |-> determineDisputeStatus(node.tags),
        import_category |-> Undefined, original_category |-> Undefined,
        import_error |-> Undefined, additional_data |-> NoData]

(***************************************************************************)
(* Inputs                                                                  *)
(***************************************************************************)

\* operations run in one behaviour
MaxOps == 2

Owners == {"u1", "u2"}

\* the invocations of saveOrdersToDb that may be under way at once
Invocations == {"p1", "p2"}

\* an invocation not under way
Idle == [owner |-> "<no user>", batch |-> <<>>, existing |-> <<>>]
NoUser == "<no user>"

\* outcomes of the two awaited storage calls of saveOrdersToDb
Failures == {"", "loadError", "upsertError"}

Header == "Name,Created at,Email,Tags,Risk Level,Lineitem quantity"

\* a field as a spreadsheet export writes it: quoted when it holds a comma
CsvField(f) == IF Includes(f, ",") THEN "\"" \o f \o "\"" ELSE f

CsvLine(fields) == Join(MapSeq(fields, CsvField), ",")

CsvText(rows) == Header \o "\n" \o Join(MapSeq(rows, CsvLine), "\n")

\* CSV files imported into the ledger
LedgerCsvs ==
    { CsvText(<< <<"#1001", "2024-01-05", "a@b.com", "chargeback, urgent", "", "1">> >>),
      CsvText(<< <<"#1001", "2024-01-05", "a@b.com", "", "", "1">> >>),
      CsvText(<< <<"#1001", "2024-01-05", "not-an-email", "won", "High", "2">> >>),
      CsvText(<< <<"#1001", "2024-01-05", "a@b.com", "lost", "", "1">>,
                 <<"#1002", "2024-02-10", "c@d.org", "", "High", "1">> >>) }

\* order nodes the live feed returns
FeedNodes ==
    { <<>>,
      << [name |-> "#1001", createdAt |-> "2024-01-05", email |-> "a@b.com",
          tags |-> <<"chargeback", "pending">>, riskLevel |-> "LOW",
          cancelReason |-> "", lineItems |-> 1] >>,
      << [name |-> "#1001", createdAt |-> "2024-01-05", email |-> "a@b.com",
          tags |-> <<>>, riskLevel |-> "HIGH", cancelReason |-> "", lineItems |-> 1],
         [name |-> "#1002", createdAt |-> "2024-02-10", email |-> "",
          tags |-> <<"Fraud">>, riskLevel |-> "LOW", cancelReason |-> "", lineItems |-> 2] >> }

\* edits an operator makes to a quarantined order
LedgerFixes ==
    { [tags |-> <<"chargeback">>],
      [tags |-> <<"Chargeback", "won back">>],
      [email |-> "a@b.com"],
      [email |-> "a@b.com", tags |-> <<"misc">>],
      [email |-> "a.b.com"] }

\* a file under another header row
FileUnder(header, rows) == header \o "\n" \o Join(MapSeq(rows, CsvLine), "\n")

\* tag fields of a row
RowTags ==
    { "", "misc", "chargeback, urgent", "Won, lost", "lost, chargeback", "chargeback, fraud",
      "fraud", "High value", "risky", "In Review", "submitted, dispute", "Dispute" }

\* one structurally valid row per tag field and native risk, one row per
\* combination of id, date and email, and files of several rows
PureCsvs ==
    { CsvText(<< <<"#1001", "2024-01-05", "a@b.com", tags, risk, "1">> >>) :
        tags \in RowTags, risk \in {"", "High", "medium", "low"} }
    \cup
    { CsvText(<< <<id, date, email, tags, "High", "2">> >>) :
        id \in {"#1001", "draft", ""}, date \in {"2024-01-05", "soon", ""},
        email \in {"a@b.com", "not-an-email", "a b@c.de", ""},
        tags \in {"", "chargeback"} }
    \cup
    { CsvText(<< <<"#1001", "2024-01-05", "a@b.com", "won", "", "2">>,
                 <<"#1001", "", "", "", "", "3">>,
                 <<"", "2024-01-05", "a@b.com", "lost", "", "1">>,
                 <<"#1002", "2024-02-10", "c@d.org", "", "High", "x">> >>),
      CsvText(<< <<"", "2024-01-05", "a@b.com", "chargeback", "", "1">> >>),
      CsvText(<< <<"#1001", "2024-01-05", "a@b.com", "Import: Won, Import: Fraud", "", "1">> >>),
      CsvText(<< <<"#1001", "2024-01-05", "", "Import: Lost", "", "1">> >>),
      CsvText(<< <<"#1001", "2024-01-05", "a@b.com", "won", "", "2">>,
                 <<"#1001", "", "", "", "", "2.5">>,
                 <<"#1001", "", "", "", "", "-3">>,
                 <<"#1002", "", "", "", "", "3 pcs">> >>),
      FileUnder("name,created at,EMAIL,tags", << <<"#1001", "2024-01-05", "a@b.com", "won">> >>),
      FileUnder("Email,Tags", << <<"a@b.com", "won">> >>),
      FileUnder("Order,Created at,Email,Tags",
                << <<"#1001", "2024-01-05", "a@b.com", "won">> >>),
      FileUnder(" Name ,Tags", << <<"#1001", "won">>, <<"7">> >>),
      Header,
      Header \o "\n",
      "" }

(***************************************************************************)
(* Operations                                                              *)
(***************************************************************************)

\* parseShopifyCSV over the files and categories imported, per engine
ParsedLedger ==
    [lenient \in BOOLEAN |-> [csvText \in LedgerCsvs |-> [category \in ImportCategory |->
        parseShopifyCSV(csvText, category, lenient)]]]

\* a save whose failed upsert leaves the first row of the batch written
saveOrdersToDbPartial(batch, fail) ==
    IF user = NoUser
    THEN [error |-> "Not authenticated", db |-> db, saved |-> saved, wrote |-> {}]
    ELSE IF Len(batch) = 0
    THEN [error |-> "", db |-> db, saved |-> saved, wrote |-> {}]
    ELSE IF fail = "upsertError"
    THEN [error |-> fail, db |-> [db EXCEPT ![user] = mergeUpsert(@, <<batch[1]>>)],
          saved |-> saved, wrote |-> {}]
    ELSE IF fail # ""
    THEN [error |-> fail, db |-> db, saved |-> saved, wrote |-> {}]
    ELSE [error |-> "",
          db |-> [db EXCEPT ![user] = mergeUpsert(@, batch)],
          saved |-> [saved EXCEPT ![user] = Append(@, batch)],
          wrote |-> BatchIds(batch)]

\* saveOrdersToDb(batch): the error thrown ("" if none), the table and the
\* record of saved batches afterwards, and the ids upserted
saveOrdersToDb(batch, fail) ==
    IF user = NoUser
    THEN [error |-> "Not authenticated", db |-> db, saved |-> saved, wrote |-> {}]
    ELSE IF Len(batch) = 0
    THEN [error |-> "", db |-> db, saved |-> saved, wrote |-> {}]
    ELSE IF fail # ""
    THEN [error |-> fail, db |-> db, saved |-> saved, wrote |-> {}]
    ELSE [error |-> "",
          db |-> [db EXCEPT ![user] = mergeUpsert(@, batch)],
          saved |-> [saved EXCEPT ![user] = Append(@, batch)],
          wrote |-> BatchIds(batch)]

\* origin after a save r: the rows written descend from a CSV import of
\* category x, or from no import (x = "") when they were edited or fed live
Stamp(r, x) ==
    IF r.wrote = {} THEN origin
    ELSE [origin EXCEPT ![user] =
            [id \in DOMAIN r.db[user] |-> IF id \in r.wrote THEN x ELSE origin[user][id]]]

NoCall == [op |-> "", owner |-> NoUser, category |-> "", updates |-> <<>>, target |-> "",
           csvText |-> "", error |-> "", wrote |-> {}, deleted |-> {},
           fields |-> <<>>, returned |-> <<>>]

Init ==
    /\ lenientDateParse \in BOOLEAN
    /\ user \in Owners \cup {NoUser}
    /\ db = [o \in Owners |-> <<>>]
    /\ disputes = [o \in Owners |-> <<>>]
    /\ inflight = [p \in Invocations |-> Idle]
    /\ orders = <<>>
    /\ call = NoCall
    /\ saved = [o \in Owners |-> <<>>]
    /\ origin = [o \in Owners |-> <<>>]
    /\ nops = 0

\* onAuthStateChange + loadInitialData: the cached orders are shown if any
SignIn(u) ==
    /\ user = NoUser
    /\ user' = u
    /\ orders' = IF DOMAIN db[u] # {} THEN loadOrdersFromDb(db[u]) ELSE orders
    /\ call' = [NoCall EXCEPT !.op = "signIn", !.owner = u]
    /\ nops < MaxOps
    /\ nops' = nops + 1
    /\ UNCHANGED <<lenientDateParse, db, saved, origin, disputes, inflight>>

\* handleSignOut
SignOut ==
    /\ user # NoUser
    /\ user' = NoUser
    /\ orders' = <<>>
    /\ call' = [NoCall EXCEPT !.op = "signOut"]
    /\ nops < MaxOps
    /\ nops' = nops + 1
    /\ UNCHANGED <<lenientDateParse, db, saved, origin, disputes, inflight>>

\* processImport: parse, save, then show
ProcessImport(csvText, category, fail) ==
    /\ nops < MaxOps
    /\ nops' = nops + 1
    /\ \E parsed \in {ParsedLedger[lenientDateParse][csvText][category]} :
       \E r \in {saveOrdersToDb(parsed.orders, fail)} :
          IF parsed.error # ""
          THEN /\ call' = [NoCall EXCEPT !.op = "processImport", !.owner = user,
                                         !.category = category, !.error = parsed.error]
               /\ UNCHANGED <<db, saved, origin, orders>>
          ELSE /\ db' = r.db
               /\ saved' = r.saved
               /\ origin' = Stamp(r, category)
               /\ orders' = IF r.error = "" THEN parsed.orders ELSE orders
               /\ call' = [NoCall EXCEPT !.op = "processImport", !.owner = user,
                                         !.category = category, !.error = r.error,
                                         !.wrote = r.wrote]
    /\ UNCHANGED <<lenientDateParse, user, disputes, inflight>>

\* loadAndSyncOrders: map the feed, save, then show
LoadAndSyncOrders(nodes, fail) ==
    /\ nops < MaxOps
    /\ nops' = nops + 1
    /\ \E liveOrders \in {MapSeq(nodes, mapGraphQLToAppOrder)} :
       \E r \in {saveOrdersToDb(liveOrders, fail)} :
          /\ db' = r.db
          /\ saved' = r.saved
          /\ origin' = Stamp(r, "")
          /\ orders' = IF r.error = "" THEN liveOrders ELSE orders
          /\ call' = [NoCall EXCEPT !.op = "loadAndSyncOrders", !.owner = user,
                                    !.error = r.error, !.wrote = r.wrote]
    /\ UNCHANGED <<lenientDateParse, user, disputes, inflight>>

\* changesCount of revalidateDatabase
changesCount(allOrders, validatedOrders) ==
    Cardinality({i \in 1..Len(allOrders) :
        \/ validatedOrders[i].import_category # allOrders[i].import_category
        \/ validatedOrders[i].import_error # allOrders[i].import_error})

\* revalidateDatabase: load, validate every order, save all if any changed
RevalidateDatabase(fail) ==
    /\ nops < MaxOps
    /\ nops' = nops + 1
    /\ \E allOrders \in {IF user = NoUser THEN <<>> ELSE loadOrdersFromDb(db[user])} :
       \E validatedOrders \in
             {[i \in 1..Len(allOrders) |-> validateOrder(allOrders[i], lenientDateParse)]} :
       \E r \in {saveOrdersToDb(validatedOrders, fail)} :
          IF Len(allOrders) = 0 \/ changesCount(allOrders, validatedOrders) = 0
          THEN /\ call' = [NoCall EXCEPT !.op = "revalidateDatabase", !.owner = user,
                                         !.returned = 0]
               /\ UNCHANGED <<db, saved, origin>>
          ELSE /\ db' = r.db
               /\ saved' = r.saved
               /\ origin' = origin
               /\ call' = [NoCall EXCEPT !.op = "revalidateDatabase", !.owner = user,
                                         !.error = r.error, !.wrote = r.wrote,
                                         !.returned =
                                            IF r.error # "" THEN <<>>
                                            ELSE changesCount(allOrders, validatedOrders)]
    /\ UNCHANGED <<lenientDateParse, user, orders, disputes, inflight>>

\* an operator edits a stored order: applyFixesAndRevalidate on the loaded
\* order, the result saved
FixOrder(id, updates, fail) ==
    /\ nops < MaxOps
    /\ user # NoUser
    /\ id \in DOMAIN db[user]
    /\ nops' = nops + 1
    /\ \E fixed \in {applyFixesAndRevalidate(db[user][id].data, updates, lenientDateParse)} :
       \E r \in {saveOrdersToDb(<<fixed>>, fail)} :
          /\ db' = r.db
          /\ saved' = r.saved
          /\ origin' = Stamp(r, "")
          /\ call' = [NoCall EXCEPT !.op = "applyFixesAndRevalidate", !.owner = user,
                                    !.updates = updates, !.target = id,
                                    !.error = r.error, !.wrote = r.wrote]
    /\ UNCHANGED <<lenientDateParse, user, orders, disputes, inflight>>

\* an operator approves a stored order by hand: forceApproveOrder on the
\* loaded order, the result saved unless it threw
ApproveOrder(id, fail) ==
    /\ nops < MaxOps
    /\ user # NoUser
    /\ id \in DOMAIN db[user]
    /\ nops' = nops + 1
    /\ \E approved \in {forceApproveOrder(db[user][id].data)} :
       \E r \in {saveOrdersToDb(<<approved.order>>, fail)} :
          IF approved.error # ""
          THEN /\ call' = [NoCall EXCEPT !.op = "forceApproveOrder", !.owner = user,
                                         !.target = id, !.error = approved.error]
               /\ UNCHANGED <<db, saved, origin>>
          ELSE /\ db' = r.db
               /\ saved' = r.saved
               /\ origin' = Stamp(r, "")
               /\ call' = [NoCall EXCEPT !.op = "forceApproveOrder", !.owner = user,
                                         !.target = id, !.error = r.error,
                                         !.wrote = r.wrote]
    /\ UNCHANGED <<lenientDateParse, user, orders, disputes, inflight>>

\* delete().eq('user_id', owner) run against every owner's rows
deleteAllOwners(table, owner) == [o \in DOMAIN table |-> <<>>]

\* supabase.from(table).delete().eq('user_id', owner)
deleteEq(table, owner) == [table EXCEPT ![owner] = <<>>]

\* the step of a purge at which Supabase returns an error, "" for none
PurgeFailures == {"", "disputesError", "importsError", "ordersError"}

\* clearAllImportedData: the owner's rows are deleted from disputes, then
\* order_imports (a table nothing writes), then orders; the first error is
\* thrown and ends the purge
ClearAllImportedData(fail) ==
    /\ nops < MaxOps
    /\ nops' = nops + 1
    /\ IF user = NoUser
       THEN /\ call' = [NoCall EXCEPT !.op = "clearAllImportedData",
                                      !.error = "Not authenticated"]
            /\ UNCHANGED <<db, disputes, saved, origin>>
       ELSE /\ disputes' = IF fail = "disputesError" THEN disputes
                           ELSE deleteEq(disputes, user)
            /\ IF fail = ""
               THEN /\ db' = deleteEq(db, user)
                    /\ saved' = [saved EXCEPT ![user] = <<>>]
                    /\ origin' = [origin EXCEPT ![user] = <<>>]
               ELSE UNCHANGED <<db, saved, origin>>
            /\ call' = [NoCall EXCEPT !.op = "clearAllImportedData", !.owner = user,
                                      !.error = fail,
                                      !.deleted = IF fail = "" THEN DOMAIN db[user] ELSE {}]
    /\ UNCHANGED <<lenientDateParse, user, orders, inflight>>

\* ClearDataButton.handleClear: the owner's rows are deleted from disputes,
\* then orders; onCleared empties the list shown
HandleClear(fail) ==
    /\ nops < MaxOps
    /\ nops' = nops + 1
    /\ IF user = NoUser
       THEN /\ call' = [NoCall EXCEPT !.op = "handleClear",
                                      !.error = "You must be logged in to delete data."]
            /\ UNCHANGED <<db, disputes, saved, origin, orders>>
       ELSE /\ disputes' = IF fail = "disputesError" THEN disputes
                           ELSE deleteEq(disputes, user)
            /\ IF fail = ""
               THEN /\ db' = deleteEq(db, user)
                    /\ saved' = [saved EXCEPT ![user] = <<>>]
                    /\ origin' = [origin EXCEPT ![user] = <<>>]
                    /\ orders' = <<>>
               ELSE UNCHANGED <<db, saved, origin, orders>>
            /\ call' = [NoCall EXCEPT !.op = "handleClear", !.owner = user,
                                      !.error = fail,
                                      !.deleted = IF fail = "" THEN DOMAIN db[user] ELSE {}]
    /\ UNCHANGED <<lenientDateParse, user, inflight>>

\* saveDisputeDraft: the owner's draft for the order is updated, or inserted
SaveDisputeDraft(orderId, text, fail) ==
    /\ nops < MaxOps
    /\ nops' = nops + 1
    /\ IF user = NoUser
       THEN /\ call' = [NoCall EXCEPT !.op = "saveDisputeDraft", !.target = orderId,
                                      !.error = "Not authenticated"]
            /\ UNCHANGED disputes
       ELSE /\ disputes' = IF fail # "" THEN disputes
                           ELSE [disputes EXCEPT ![user] = (orderId :> text) @@ @]
            /\ call' = [NoCall EXCEPT !.op = "saveDisputeDraft", !.owner = user,
                                      !.target = orderId]
    /\ UNCHANGED <<lenientDateParse, user, db, orders, saved, origin, inflight>>

Next ==
    \/ \E u \in Owners : SignIn(u)
    \/ SignOut
    \/ \E csvText \in LedgerCsvs, category \in ImportCategory, fail \in Failures :
          ProcessImport(csvText, category, fail)
    \/ \E nodes \in FeedNodes, fail \in Failures : LoadAndSyncOrders(nodes, fail)
    \/ \E fail \in Failures : RevalidateDatabase(fail)
    \/ \E id \in {"#1001", "#1002"}, updates \in LedgerFixes, fail \in Failures :
          FixOrder(id, updates, fail)
    \/ \E id \in {"#1001", "#1002"}, fail \in Failures : ApproveOrder(id, fail)
    \/ \E fail \in PurgeFailures : ClearAllImportedData(fail)

Spec == Init /\ [][Next]_vars

(***************************************************************************)
(* The pure functions called directly: parseShopifyCSV on a file, then     *)
(* validateOrder, applyFixesAndRevalidate and forceApproveOrder on the      *)
(* orders held, nothing stored                                              *)
(***************************************************************************)

\* an Order as validateOrder may be handed one: quarantined orders look as
\* the quarantine branches leave them, the others as an import left them
InputOrder(id, date, email, tags, category, original) ==
    [id |-> id, date |-> date, email |-> email, itemsCount |-> 1, tags |-> tags,
     isHighRisk |-> category \in {"RISK", "DISPUTE_OPEN"},
     disputeStatus |-> CASE category = "DISPUTE_OPEN" -> "Needs Response"
                         [] category = "DISPUTE_WON" -> "Won"
                         [] OTHER -> "None",
     import_category |-> category,
     original_category |-> original,
     import_error |-> IF category = "INVALID" THEN "Invalid Email" ELSE Undefined,
     additional_data |-> NoData]

InputTags ==
    { <<>>, <<"misc">>, <<"won">>, <<"Chargeback">>, <<"lost", "chargeback">>,
      <<"Import: Fraud">>, <<"Under Review">>, <<"review">>, <<"reopened">> }

InputOrders ==
    { InputOrder(id, date, email, tags, c[1], c[2]) :
        id \in {"#1001", "draft"},
        date \in {"2024-01-05", "Jan 5, 12:00 AM", "N/A"},
        email \in {"a@b.com", "N/A"},
        tags \in InputTags,
        c \in ({"INVALID"} \X {Undefined, "", "AUTO", "INVALID", "RISK", "DISPUTE_OPEN",
                               "DISPUTE_SUBMITTED", "DISPUTE_WON", "DISPUTE_LOST"})
              \cup ({"AUTO", "RISK", "DISPUTE_OPEN", "DISPUTE_WON"} \X {Undefined}) }

PureInit ==
    /\ lenientDateParse \in BOOLEAN
    /\ user = NoUser
    /\ db = [o \in Owners |-> <<>>]
    /\ disputes = [o \in Owners |-> <<>>]
    /\ inflight = [p \in Invocations |-> Idle]
    /\ orders \in {<<>>} \cup {<<o>> : o \in InputOrders}
    /\ call = NoCall
    /\ saved = [o \in Owners |-> <<>>]
    /\ origin = [o \in Owners |-> <<>>]
    /\ nops = 0

\* parseShopifyCSV(csvText, category): the orders returned are held
CallParse(csvText, category) ==
    /\ nops = 0
    /\ orders = <<>>
    /\ nops' = nops + 1
    /\ \E parsed \in {parseShopifyCSV(csvText, category, lenientDateParse)} :
          /\ orders' = parsed.orders
          /\ call' = [NoCall EXCEPT !.op = "parseShopifyCSV", !.category = category,
                                    !.csvText = csvText, !.error = parsed.error]
    /\ UNCHANGED <<lenientDateParse, user, db, saved, origin, disputes, inflight>>

\* validateOrder on every order held
CallValidate ==
    /\ nops < MaxOps
    /\ orders # <<>>
    /\ nops' = nops + 1
    /\ orders' = [i \in 1..Len(orders) |-> validateOrder(orders[i], lenientDateParse)]
    /\ call' = [NoCall EXCEPT !.op = "validateOrder"]
    /\ UNCHANGED <<lenientDateParse, user, db, saved, origin, disputes, inflight>>

\* applyFixesAndRevalidate(order, updates) on every order held
CallFix(updates) ==
    /\ nops < MaxOps
    /\ orders # <<>>
    /\ nops' = nops + 1
    /\ orders' = [i \in 1..Len(orders) |->
                     applyFixesAndRevalidate(orders[i], updates, lenientDateParse)]
    /\ call' = [NoCall EXCEPT !.op = "applyFixesAndRevalidate", !.updates = updates]
    /\ UNCHANGED <<lenientDateParse, user, db, saved, origin, disputes, inflight>>

\* forceApproveOrder on the first order held; nothing is returned if it throws
CallApprove ==
    /\ nops < MaxOps
    /\ orders # <<>>
    /\ nops' = nops + 1
    /\ \E approved \in {forceApproveOrder(orders[1])} :
          /\ orders' = IF approved.error = "" THEN [orders EXCEPT ![1] = approved.order]
                       ELSE orders
          /\ call' = [NoCall EXCEPT !.op = "forceApproveOrder", !.target = orders[1].id,
                                    !.error = approved.error]
    /\ UNCHANGED <<lenientDateParse, user, db, saved, origin, disputes, inflight>>

PureNext ==
    \/ \E csvText \in PureCsvs, category \in ImportCategory : CallParse(csvText, category)
    \/ CallValidate
    \/ \E updates \in LedgerFixes : CallFix(updates)
    \/ CallApprove

SpecPure == PureInit /\ [][PureNext]_vars

(***************************************************************************)
(* The purge, run on a ledger two owners have already imported into        *)
(***************************************************************************)

\* what an owner holds before the purge: nothing, or the orders of one import
PurgeSeeds(lenient) ==
    {[category |-> "", batch |-> <<>>]}
    \cup { [category |-> category,
            batch |-> ParsedLedger[lenient][csvText][category].orders] :
             csvText \in LedgerCsvs, category \in {"AUTO"} }

\* the drafts an owner holds before the purge
PurgeDrafts == {<<>>, "#1001" :> "We contest this dispute."}

PurgeInit ==
    /\ lenientDateParse \in BOOLEAN
    /\ user \in Owners \cup {NoUser}
    /\ \E seed \in [Owners -> PurgeSeeds(lenientDateParse)] :
          /\ db = [o \in Owners |-> mergeUpsert(<<>>, seed[o].batch)]
          /\ saved = [o \in Owners |->
                        IF seed[o].batch = <<>> THEN <<>> ELSE <<seed[o].batch>>]
          /\ origin = [o \in Owners |->
                         [id \in BatchIds(seed[o].batch) |-> seed[o].category]]
    /\ disputes \in [Owners -> PurgeDrafts]
    /\ inflight = [p \in Invocations |-> Idle]
    /\ orders = IF user # NoUser /\ DOMAIN db[user] # {} THEN loadOrdersFromDb(db[user])
                ELSE <<>>
    /\ call = NoCall
    /\ nops = 0

PurgeNext ==
    \/ \E u \in Owners : SignIn(u)
    \/ SignOut
    \/ \E orderId \in {"#1001", "#1002"}, fail \in {"", "insertError"} :
          SaveDisputeDraft(orderId, "Delivered and signed for.", fail)
    \/ \E fail \in PurgeFailures : ClearAllImportedData(fail)
    \/ \E fail \in PurgeFailures \ {"importsError"} : HandleClear(fail)

SpecPurge == PurgeInit /\ [][PurgeNext]_vars

(***************************************************************************)

(* parseCSVLine called on lines written from lists of fields              *)
(***************************************************************************)

MaxFieldLen == 2
MaxFields == 2

FieldAlphabet == {"a", ",", "\""}

\* the strings over alphabet of at most n characters
RECURSIVE StringsUpTo(_, _)
StringsUpTo(alphabet, n) ==
    IF n = 0 THEN {""}
    ELSE LET shorter == StringsUpTo(alphabet, n - 1)
         IN shorter \cup {s \o c : s \in shorter, c \in alphabet}

\* the lists over S of at most n elements
RECURSIVE ListsUpTo(_, _)
ListsUpTo(S, n) ==
    IF n = 0 THEN {<<>>}
    ELSE LET shorter == ListsUpTo(S, n - 1)
         IN shorter \cup {Append(l, x) : l \in shorter, x \in S}

FieldLists == ListsUpTo(StringsUpTo(FieldAlphabet, MaxFieldLen), MaxFields)

\* a field as a CSV writer quotes it: wrapped in quotes, inner quotes doubled
RECURSIVE DoubleQuotes(_)
DoubleQuotes(f) ==
    IF f = "" THEN ""
    ELSE (IF CharAt(f, 1) = "\"" THEN "\"\"" ELSE CharAt(f, 1))
         \o DoubleQuotes(SubSeq(f, 2, Len(f)))

QuotedLine(fields) == Join(MapSeq(fields, LAMBDA f : "\"" \o DoubleQuotes(f) \o "\""), ",")

LineInit ==
    /\ lenientDateParse \in BOOLEAN
    /\ user = NoUser
    /\ db = [o \in Owners |-> <<>>]
    /\ disputes = [o \in Owners |-> <<>>]
    /\ inflight = [p \in Invocations |-> Idle]
    /\ orders = <<>>
    /\ call = NoCall
    /\ saved = [o \in Owners |-> <<>>]
    /\ origin = [o \in Owners |-> <<>>]
    /\ nops = 0

\* parseCSVLine(line) on the line written from fields
CallParseCSVLine(fields) ==
    /\ nops = 0
    /\ nops' = nops + 1
    /\ call' = [NoCall EXCEPT !.op = "parseCSVLine", !.fields = fields,
                              !.csvText = QuotedLine(fields),
                              !.returned = parseCSVLine(QuotedLine(fields))]
    /\ UNCHANGED <<lenientDateParse, user, db, disputes, orders, saved, origin, inflight>>

\* one call per run: the field lists are drawn only while none was made
LineNext == nops = 0 /\ \E fields \in FieldLists : CallParseCSVLine(fields)

SpecLine == LineInit /\ [][LineNext]_vars

(***************************************************************************)

(* saveOrdersToDb run by two invocations at once: each reads the existing *)
(* rows, then upserts the rows it merged from what it read                 *)
(***************************************************************************)

\* the categories the overlapping imports are made under
RaceCategories == {"RISK", "DISPUTE_OPEN", "DISPUTE_WON"}

RaceInit ==
    /\ lenientDateParse \in BOOLEAN
    /\ user \in Owners
    /\ db = [o \in Owners |-> <<>>]
    /\ disputes = [o \in Owners |-> <<>>]
    /\ inflight = [p \in Invocations |-> Idle]
    /\ orders = <<>>
    /\ call = NoCall
    /\ saved = [o \in Owners |-> <<>>]
    /\ origin = [o \in Owners |-> <<>>]
    /\ nops = 0

\* saveOrdersToDb up to step 1: the rows of the batch's ids are read
ReadExisting(p, batch, fail) ==
    /\ inflight[p] = Idle
    /\ nops < MaxOps
    /\ nops' = nops + 1
    /\ IF fail # ""
       THEN /\ call' = [NoCall EXCEPT !.op = "saveOrdersToDb", !.owner = user,
                                      !.error = fail]
            /\ UNCHANGED inflight
       ELSE /\ call' = [NoCall EXCEPT !.op = "saveOrdersToDb (read)", !.owner = user]
            /\ inflight' = [inflight EXCEPT ![p] =
                  [owner |-> user, batch |-> batch,
                   existing |-> [id \in DOMAIN db[user] \cap BatchIds(batch) |->
                                    db[user][id]]]]
    /\ UNCHANGED <<lenientDateParse, user, db, disputes, orders, saved, origin>>

\* saveOrdersToDb steps 2 and 3: the rows merged from what was read are
\* upserted over whatever the table holds by now
UpsertMerged(p, fail) ==
    /\ inflight[p] # Idle
    /\ inflight' = [inflight EXCEPT ![p] = Idle]
    /\ \E owner \in {inflight[p].owner}, batch \in {inflight[p].batch} :
       \E merged \in {mergeUpsert(inflight[p].existing, batch)} :
          IF fail # ""
          THEN /\ call' = [NoCall EXCEPT !.op = "saveOrdersToDb", !.owner = owner,
                                         !.error = fail]
               /\ UNCHANGED <<db, saved, origin>>
          ELSE /\ db' = [db EXCEPT ![owner] =
                           [id \in DOMAIN @ \cup BatchIds(batch) |->
                               IF id \in BatchIds(batch) THEN merged[id] ELSE @[id]]]
               /\ saved' = [saved EXCEPT ![owner] = Append(@, batch)]
               /\ origin' = [origin EXCEPT ![owner] =
                               [id \in DOMAIN @ \cup BatchIds(batch) |->
                                   IF id \in BatchIds(batch) THEN "" ELSE @[id]]]
               /\ call' = [NoCall EXCEPT !.op = "saveOrdersToDb", !.owner = owner,
                                         !.wrote = BatchIds(batch)]
    /\ UNCHANGED <<lenientDateParse, user, disputes, orders, nops>>

RaceNext ==
    \/ \E p \in Invocations, csvText \in LedgerCsvs, category \in RaceCategories,
          fail \in {"", "loadError"} :
          ReadExisting(p, ParsedLedger[lenientDateParse][csvText][category].orders, fail)
    \/ \E p \in Invocations, fail \in {"", "upsertError"} : UpsertMerged(p, fail)

SpecRace == RaceInit /\ [][RaceNext]_vars

(***************************************************************************)

(* validateOrder called directly, and revalidateDatabase run on a ledger   *)
(* an owner has already imported into                                      *)
(***************************************************************************)

\* the imports the ledger holds before revalidation
RevalidateSeeds(lenient) ==
    { [category |-> category,
       batch |-> ParsedLedger[lenient][csvText][category].orders] :
         csvText \in LedgerCsvs, category \in {"AUTO", "DISPUTE_WON"} }

RevalidateInit ==
    \/ PureInit
    \/ /\ lenientDateParse \in BOOLEAN
       /\ user \in Owners
       /\ \E seed \in RevalidateSeeds(lenientDateParse) :
             /\ db = [o \in Owners |-> mergeUpsert(<<>>, seed.batch)]
             /\ saved = [o \in Owners |-> <<seed.batch>>]
             /\ origin = [o \in Owners |-> [id \in BatchIds(seed.batch) |-> seed.category]]
       /\ disputes = [o \in Owners |-> <<>>]
       /\ inflight = [p \in Invocations |-> Idle]
       /\ orders = loadOrdersFromDb(db[user])
       /\ call = NoCall
       /\ nops = 0

RevalidateNext ==
    \/ CallValidate
    \/ \E fail \in Failures : RevalidateDatabase(fail)
    \/ \E id \in {"#1001", "#1002"}, updates \in LedgerFixes, fail \in Failures :
          FixOrder(id, updates, fail)

SpecRevalidate == RevalidateInit /\ [][RevalidateNext]_vars

(***************************************************************************)

(* Properties of the reconciler (storageService.ts)                        *)
(***************************************************************************)

\* the latest_dispute_status of a row, "none" for a row that does not exist
StatusOf(table, id) == IF id \in DOMAIN table THEN table[id].latest_dispute_status ELSE "none"

\* the sources of a row, empty for a row that does not exist
SourcesOf(table, id) == IF id \in DOMAIN table THEN table[id].sources ELSE {}

\* the step saved a batch of owner u that carries id
Saves(u, id) == call'.owner = u /\ id \in call'.wrote

\* C1: across every save, the rank of a row's latest_dispute_status after the
\* call is at least its rank before the call, whatever the incoming status
\* is, a quarantined order's forced None included.
C1_RankNeverDrops ==
    [][\A u \in Owners : \A id \in DOMAIN db'[u] :
          statusRank(db'[u][id].latest_dispute_status) >= statusRank(StatusOf(db[u], id))]_vars

\* C1 witness: a quarantined order (status None) was saved over a row that
\* had reached a terminal status, and the row kept it
C1_Witness ==
    \E u \in Owners : \E id \in DOMAIN db[u] :
        /\ call.owner = u /\ id \in call.wrote
        /\ db[u][id].data.import_category = "INVALID"
        /\ db[u][id].data.disputeStatus = "None"
        /\ db[u][id].latest_dispute_status \in {"won", "lost"}

\* C2: once a row's latest_dispute_status is won or lost, no later save
\* changes it: the existing value wins against the other terminal status and
\* against every lower one.
C2_TerminalIsFinal ==
    [][\A u \in Owners : \A id \in DOMAIN db[u] \cap DOMAIN db'[u] :
          db[u][id].latest_dispute_status \in {"won", "lost"}
          => db'[u][id].latest_dispute_status = db[u][id].latest_dispute_status]_vars

\* C3: once a row's latest_risk_label is high it is high after every later
\* save of that (owner, id), also when the incoming order is not high risk
\* or is quarantined.
C3_RiskIsSticky ==
    [][\A u \in Owners : \A id \in DOMAIN db[u] \cap DOMAIN db'[u] :
          db[u][id].latest_risk_label = "high" => db'[u][id].latest_risk_label = "high"]_vars

\* C3 witness: a quarantined, not-high-risk order was saved over a high row
C3_Witness ==
    \E u \in Owners : \E id \in DOMAIN db[u] :
        /\ call.owner = u /\ id \in call.wrote
        /\ db[u][id].data.import_category = "INVALID"
        /\ ~db[u][id].data.isHighRisk
        /\ db[u][id].latest_risk_label = "high"

\* the source the claim derives from an incoming order
C4_DerivedSource(order) ==
    IF order.disputeStatus = "Needs Response" THEN "dispute_open"
    ELSE IF order.disputeStatus = "Under Review" THEN "dispute_submitted"
    ELSE IF order.disputeStatus = "Won" THEN "dispute_won"
    ELSE IF order.disputeStatus = "Lost" THEN "dispute_lost"
    ELSE IF order.isHighRisk THEN "fraud"
    ELSE "orders"

\* C4: after each save a row's sources are its previous sources plus the one
\* source derived from the incoming order, and a row the save does not carry
\* keeps its sources: no key is ever lost.
C4_SourcesAccumulate ==
    [][\A u \in Owners : \A id \in DOMAIN db'[u] :
          db'[u][id].sources =
              IF Saves(u, id)
              THEN SourcesOf(db[u], id) \cup {C4_DerivedSource(db'[u][id].data)}
              ELSE SourcesOf(db[u], id)]_vars

\* C4 witness: a save added a second source to a row
C4_Witness ==
    \E u \in Owners : \E id \in DOMAIN db[u] :
        /\ call.owner = u /\ id \in call.wrote
        /\ Cardinality(db[u][id].sources) >= 2
        /\ "fraud" \in db[u][id].sources

\* the batch saved last for owner u
LastSaved(u) == saved[u][Len(saved[u])]

\* C5: saving the batch that was saved last once more leaves every row of the
\* owner (status, risk label, sources and snapshot) as the first save left it.
C5_ResaveIsNoOp ==
    [][\A u \in Owners :
          (/\ Len(saved[u]) >= 1
           /\ Len(saved'[u]) = Len(saved[u]) + 1
           /\ saved'[u][Len(saved'[u])] = LastSaved(u))
          => db'[u] = db[u]]_vars

\* C5 witness: the same batch has been saved twice in succession
C5_Witness ==
    \E u \in Owners :
        /\ Len(saved[u]) >= 2
        /\ saved[u][Len(saved[u]) - 1] = LastSaved(u)
        /\ call.owner = u /\ call.wrote = BatchIds(LastSaved(u))

\* the orders saved under id for owner u, in the order they were saved
ItemsOf(u, id) ==
    LET batches == SelectSeq(saved[u], LAMBDA b : id \in BatchIds(b))
    IN [k \in 1..Len(batches) |->
           batches[k][CHOOSE i \in 1..Len(batches[k]) : batches[k][i].id = id]]

\* the row that merging items one after another into row produces
RECURSIVE MergeAll(_, _)
MergeAll(row, items) ==
    IF Len(items) = 0 THEN row ELSE MergeAll(upsertRow(row, Head(items)), Tail(items))

\* the orders of items in every order they can be saved in
Reorderings(items) ==
    {[k \in 1..Len(items) |-> items[p[k]]] :
        p \in {q \in [1..Len(items) -> 1..Len(items)] :
                  \A i, j \in 1..Len(items) : q[i] = q[j] => i = j}}

\* C6 as stated: whatever the order in which the orders of an id were saved,
\* the row ends with the same latest_dispute_status.
C6_StatusAnyOrder ==
    \A u \in Owners : \A id \in DOMAIN db[u] :
        \A items \in Reorderings(ItemsOf(u, id)) :
            MergeAll(NoRow, items).latest_dispute_status = db[u][id].latest_dispute_status

\* C6 amended: whatever the order in which the orders of an id were saved,
\* the row ends with the same rank of latest_dispute_status, the same
\* latest_risk_label and the same sources; which of two equal-rank statuses
\* and which snapshot it holds depends on the order.
C6_RankRiskSourcesAnyOrder ==
    \A u \in Owners : \A id \in DOMAIN db[u] :
        \A items \in Reorderings(ItemsOf(u, id)) :
            LET row == MergeAll(NoRow, items) IN
            /\ statusRank(row.latest_dispute_status) = statusRank(db[u][id].latest_dispute_status)
            /\ row.latest_risk_label = db[u][id].latest_risk_label
            /\ row.sources = db[u][id].sources

\* C6 witness: one id was saved twice, once Won and once Lost, with
\* different risk
C6_Witness ==
    \E u \in Owners : \E id \in DOMAIN db[u] :
        LET items == ItemsOf(u, id) IN
        /\ Len(items) >= 2
        /\ {items[1].disputeStatus, items[2].disputeStatus} = {"Won", "Lost"}

(***************************************************************************)
(* Properties of the quarantine state machine                              *)
(***************************************************************************)

\* what a quarantined order must look like
QuarantineShape(o) ==
    o.import_category = "INVALID"
    => /\ o.import_error \notin {Undefined, ""}
       /\ ~o.isHighRisk
       /\ o.disputeStatus = "None"

\* C7: every INVALID order that parseShopifyCSV, validateOrder or
\* applyFixesAndRevalidate returned, shown or stored, has a non-empty
\* import_error, isHighRisk false and disputeStatus None.
C7_QuarantineShape ==
    /\ \A i \in 1..Len(orders) : QuarantineShape(orders[i])
    /\ \A u \in Owners : \A id \in DOMAIN db[u] : QuarantineShape(db[u][id].data)

\* C7 witness: an edit sent to quarantine an order that was high risk and
\* had a dispute status
C7_Witness ==
    \E u \in Owners : \E id \in DOMAIN db[u] :
        /\ call.op = "applyFixesAndRevalidate" /\ call.owner = u /\ id \in call.wrote
        /\ db[u][id].data.import_category = "INVALID"
        /\ db[u][id].latest_risk_label = "high"
        /\ db[u][id].latest_dispute_status # "none"

EmptyTagsField(o) ==
    "Tags" \in DOMAIN o.additional_data /\ o.additional_data["Tags"] = ""

\* C9: an order imported with an explicit category and an empty Tags field
\* does not carry the reason "Missing Tags", neither as parseShopifyCSV
\* returned it nor after any number of later validateOrder runs.
C9_ExplicitNeverMissingTags ==
    /\ (call.op = "processImport" /\ call.category # "AUTO" /\ call.error = "")
       => \A i \in 1..Len(orders) :
             EmptyTagsField(orders[i]) => ~Includes(orders[i].import_error, "Missing Tags")
    /\ \A u \in Owners : \A id \in DOMAIN db[u] :
          (origin[u][id] \notin {"", "AUTO"} /\ EmptyTagsField(db[u][id].data))
          => ~Includes(db[u][id].data.import_error, "Missing Tags")

\* C9 witness: an order imported with an explicit category and no tags was
\* validated again, and stored
C9_Witness ==
    \E u \in Owners : \E id \in DOMAIN db[u] :
        /\ call.op = "revalidateDatabase" /\ call.owner = u /\ id \in call.wrote
        /\ origin[u][id] \notin {"", "AUTO"}
        /\ EmptyTagsField(db[u][id].data)

\* quarantined by an AUTO import for its missing tags and nothing else
MissingTagsOnly(o) ==
    /\ o.import_category = "INVALID"
    /\ o.import_error = "Missing Tags"
    /\ o.original_category = "AUTO"

Recovered(o) ==
    /\ o.import_category = "DISPUTE_OPEN"
    /\ o.disputeStatus = "Needs Response"
    /\ o.import_error = Undefined

\* the step revalidated or re-imported the order stored under (u, id), the
\* result has a tag containing "chargeback" and passed every check
RevalidatedWithChargeback(u, id) ==
    /\ Saves(u, id)
    /\ call'.op \in {"processImport", "applyFixesAndRevalidate", "revalidateDatabase"}
    /\ SomeTagIncludes(db'[u][id].data.tags, "chargeback")
    /\ db'[u][id].data.import_category # "INVALID"

PassesAllChecks(o) ==
    /\ o.id # "" /\ hasNumbers(o.id)
    /\ o.date # "" /\ isValidDate(o.date, lenientDateParse)
    /\ o.email # "" /\ isValidEmail(o.email)
    /\ Len(o.tags) > 0

\* the dispute status the claim gives for a concrete category
C11_StatusOf(category) ==
    CASE category = "DISPUTE_WON" -> "Won"
      [] category = "DISPUTE_LOST" -> "Lost"
      [] category = "DISPUTE_SUBMITTED" -> "Under Review"
      [] category = "DISPUTE_OPEN" -> "Needs Response"
      [] category = "RISK" -> "None"

\* C11: validateOrder, given an INVALID order that passes all checks and whose
\* original_category is a concrete category, returns it with import_category
\* that category, the category's dispute status and no import_error, whatever
\* its tags would detect.
C11_RestoresRemembered ==
    [][call'.op = "validateOrder"
       => \A i \in 1..Len(orders) :
             (/\ orders[i].import_category = "INVALID"
              /\ PassesAllChecks(orders[i])
              /\ orders[i].original_category \in
                    {"RISK", "DISPUTE_OPEN", "DISPUTE_SUBMITTED", "DISPUTE_WON", "DISPUTE_LOST"})
             => /\ orders'[i].import_category = orders[i].original_category
                /\ orders'[i].disputeStatus = C11_StatusOf(orders[i].original_category)
                /\ orders'[i].import_error = Undefined]_vars

\* C11 witness: an order remembered as lost and tagged won was revalidated
\* and is DISPUTE_LOST
C11_Witness ==
    /\ call.op = "validateOrder"
    /\ Len(orders) = 1
    /\ orders[1].original_category = "DISPUTE_LOST"
    /\ orders[1].import_category = "DISPUTE_LOST"
    /\ orders[1].disputeStatus = "Lost"
    /\ orders[1].import_error = Undefined
    /\ SomeTagIncludes(orders[1].tags, "won")

\* the keywords tag detection looks for after a quarantine
C12_Keywords == {"won", "lost", "submitted", "under review", "open", "chargeback", "dispute"}

\* C12: validateOrder, given an INVALID order that passes all checks, has no
\* usable original_category (absent, empty, AUTO or INVALID) and no tag with a
\* detection keyword, returns it in the RISK bucket: isHighRisk true,
\* disputeStatus None, no import_error; never INVALID, never uncategorized.
C12_FallsBackToRisk ==
    [][call'.op = "validateOrder"
       => \A i \in 1..Len(orders) :
             (/\ orders[i].import_category = "INVALID"
              /\ PassesAllChecks(orders[i])
              /\ orders[i].original_category \in {Undefined, "", "AUTO", "INVALID"}
              /\ \A kw \in C12_Keywords : ~SomeTagIncludes(orders[i].tags, kw))
             => /\ orders'[i].import_category = "RISK"
                /\ orders'[i].isHighRisk
                /\ orders'[i].disputeStatus = "None"
                /\ orders'[i].import_error = Undefined]_vars

\* C12 witness: an order quarantined by an AUTO import, now tagged with
\* nothing detection knows, was revalidated into the RISK bucket
C12_Witness ==
    /\ call.op = "validateOrder"
    /\ Len(orders) = 1
    /\ orders[1].original_category = "AUTO"
    /\ orders[1].import_category = "RISK"
    /\ orders[1].isHighRisk
    /\ orders[1].tags = <<"review">>

\* what the claim expects tag detection to find: category and dispute
\* status, in the priority of determineCategoryFromTags
C13_Detected(tags) ==
    IF SomeTagIncludes(tags, "won") THEN <<"DISPUTE_WON", "Won">>
    ELSE IF SomeTagIncludes(tags, "lost") THEN <<"DISPUTE_LOST", "Lost">>
    ELSE IF SomeTagIncludes(tags, "submitted") \/ SomeTagIncludes(tags, "under review")
    THEN <<"DISPUTE_SUBMITTED", "Under Review">>
    ELSE <<"DISPUTE_OPEN", "Needs Response">>

\* C13: forceApproveOrder throws, returning nothing, exactly when no tag of
\* the order holds a detection keyword; otherwise it returns the order with
\* the category and dispute status detected from the tags and no
\* import_error, never the RISK bucket, whatever original_category holds.
C13_ApproveNeedsDetection ==
    [][call'.op = "forceApproveOrder"
       => LET detects == \E kw \in C12_Keywords : SomeTagIncludes(orders[1].tags, kw) IN
          /\ call'.error # "" <=> ~detects
          /\ ~detects => orders' = orders
          /\ detects => /\ orders'[1].import_category = C13_Detected(orders[1].tags)[1]
                        /\ orders'[1].disputeStatus = C13_Detected(orders[1].tags)[2]
                        /\ orders'[1].import_error = Undefined
                        /\ orders'[1].original_category = orders[1].original_category]_vars

\* C13 witness: an order remembered as RISK and tagged won was approved as
\* DISPUTE_WON
C13_Witness ==
    /\ call.op = "forceApproveOrder"
    /\ call.error = ""
    /\ Len(orders) = 1
    /\ orders[1].original_category = "RISK"
    /\ orders[1].tags = <<"won">>
    /\ orders[1].import_category = "DISPUTE_WON"
    /\ orders[1].disputeStatus = "Won"

(***************************************************************************)
(* Properties of parseShopifyCSV                                           *)
(***************************************************************************)

\* the last call was parseShopifyCSV and it returned orders
Parsed == call.op = "parseShopifyCSV" /\ call.error = ""

\* the field of the order's first row under the column called name
RawField(o, name) ==
    LET keys == {k \in DOMAIN o.additional_data : ToLowerCase(Trim(k)) = ToLowerCase(name)}
    IN IF keys = {} THEN "" ELSE o.additional_data[CHOOSE k \in keys : TRUE]

\* the native risk hint of the order's first row
NativeRiskHint(o) == ToLowerCase(RawField(o, "Risk Level")) \in {"high", "medium"}

\* C14: a structurally valid row imported with an explicit category gets
\* that category as import_category and the dispute status of the fixed
\* table, whatever its tags; isHighRisk is true for DISPUTE_OPEN and RISK and
\* is the row's native risk hint for the other three.
C14_ExplicitTable ==
    (Parsed /\ call.category # "AUTO")
    => \A i \in 1..Len(orders) :
          orders[i].import_category # "INVALID"
          => /\ orders[i].import_category = call.category
             /\ orders[i].disputeStatus = C11_StatusOf(call.category)
             /\ orders[i].isHighRisk =
                   (call.category \in {"DISPUTE_OPEN", "RISK"} \/ NativeRiskHint(orders[i]))
             /\ orders[i].import_error = Undefined

\* C14 witness: a row tagged lost and chargeback, native risk high, was
\* imported as DISPUTE_WON
C14_Witness ==
    /\ Parsed
    /\ call.category = "DISPUTE_WON"
    /\ Len(orders) = 1
    /\ SomeTagIncludes(orders[1].tags, "lost")
    /\ NativeRiskHint(orders[1])
    /\ orders[1].import_category = "DISPUTE_WON"
    /\ orders[1].disputeStatus = "Won"
    /\ orders[1].isHighRisk

\* some tag, case-folded, contains the keyword
C15_Has(tags, kw) == \E i \in 1..Len(tags) : Includes(ToLowerCase(tags[i]), kw)

\* category, dispute status and risk flag of the first match in the priority
\* won > lost > submitted/review > chargeback/dispute > fraud/risk/high
C15_FirstMatch(tags, nativeRisk) ==
    IF C15_Has(tags, "won") THEN <<"DISPUTE_WON", "Won", nativeRisk>>
    ELSE IF C15_Has(tags, "lost") THEN <<"DISPUTE_LOST", "Lost", nativeRisk>>
    ELSE IF C15_Has(tags, "submitted") \/ C15_Has(tags, "review")
    THEN <<"DISPUTE_SUBMITTED", "Under Review", nativeRisk>>
    ELSE IF C15_Has(tags, "chargeback") \/ C15_Has(tags, "dispute")
    THEN <<"DISPUTE_OPEN", "Needs Response", TRUE>>
    ELSE IF C15_Has(tags, "fraud") \/ C15_Has(tags, "risk") \/ C15_Has(tags, "high")
    THEN <<"RISK", "None", TRUE>>
    ELSE <<"AUTO", "None", nativeRisk>>

\* C15: a structurally valid row imported in AUTO mode gets the category of
\* the first keyword its case-folded tags match in the fixed priority, so a
\* higher keyword always beats a lower one; tags matching nothing leave
\* disputeStatus None and isHighRisk the native risk hint.
C15_AutoPriority ==
    (Parsed /\ call.category = "AUTO")
    => \A i \in 1..Len(orders) :
          orders[i].import_category # "INVALID"
          => LET first == C15_FirstMatch(orders[i].tags, NativeRiskHint(orders[i])) IN
             /\ orders[i].import_category = first[1]
             /\ orders[i].disputeStatus = first[2]
             /\ orders[i].isHighRisk = first[3]

\* C15 witness: a row tagged "Won, lost" was imported in AUTO mode and is
\* DISPUTE_WON
C15_Witness ==
    /\ Parsed
    /\ call.category = "AUTO"
    /\ Len(orders) = 1
    /\ orders[1].tags = <<"Won", "lost">>
    /\ orders[1].import_category = "DISPUTE_WON"
    /\ orders[1].disputeStatus = "Won"

\* the lines of the file as parseShopifyCSV splits them
C16_Lines(csvText) == Split(Trim(csvText), "\n")

\* the header row of the file has a column called Name, in any case
C16_HeaderHasName(csvText) ==
    LET header == parseCSVLine(C16_Lines(csvText)[1])
    IN \E n \in 1..Len(header) : ToLowerCase(Trim(header[n])) = "name"

\* C16 as stated: parseShopifyCSV throws if and only if the header row has
\* no Name column.
C16_AbortsOnlyWithoutName ==
    call.op = "parseShopifyCSV"
    => (call.error # "" <=> ~C16_HeaderHasName(call.csvText))

\* C16 amended: parseShopifyCSV throws, returning no order, if and only if
\* the file has fewer than two lines or its header row has no Name column;
\* otherwise it returns a list of orders.
C16_AbortsWithoutNameOrRows ==
    call.op = "parseShopifyCSV"
    => /\ call.error # "" <=> (\/ Len(C16_Lines(call.csvText)) < 2
                               \/ ~C16_HeaderHasName(call.csvText))
       /\ call.error # "" => orders = <<>>
       /\ (Len(C16_Lines(call.csvText)) >= 2 /\ C16_HeaderHasName(call.csvText))
          => Len(orders) >= 1

\* C16 witness: a file with rows under a header without Name was refused
C16_Witness ==
    /\ call.op = "parseShopifyCSV"
    /\ Len(C16_Lines(call.csvText)) >= 2
    /\ ~C16_HeaderHasName(call.csvText)
    /\ call.error = "Invalid CSV: Missing 'Name' column."
    /\ orders = <<>>

\* C17: a data row whose Name field is empty produces no order: every order
\* parseShopifyCSV returns comes from a row with a Name, none carries a
\* synthesized identifier.
C17_EmptyNameSkipped ==
    Parsed
    => \A i \in 1..Len(orders) :
          /\ RawField(orders[i], "Name") # ""
          /\ orders[i].id = RawField(orders[i], "Name")

\* C18: a quarantined order's original_category is the category the
\* classifier computed for its row: the operator's category in explicit mode,
\* in AUTO mode the category auto-detected from the row's tags.
C18_OriginalIsClassified ==
    Parsed
    => \A i \in 1..Len(orders) :
          orders[i].import_category = "INVALID"
          => orders[i].original_category =
                IF call.category # "AUTO" THEN call.category
                ELSE C15_FirstMatch(tagsList(RawField(orders[i], "Tags")),
                                    NativeRiskHint(orders[i]))[1]

\* C18 witness: a row tagged chargeback with the email not-an-email was
\* imported in AUTO mode and is quarantined with original_category
\* DISPUTE_OPEN
C18_Witness ==
    /\ Parsed
    /\ call.category = "AUTO"
    /\ Len(orders) = 1
    /\ RawField(orders[1], "Email") = "not-an-email"
    /\ RawField(orders[1], "Tags") = "chargeback"
    /\ orders[1].import_category = "INVALID"
    /\ orders[1].import_error = "Invalid Email"
    /\ orders[1].original_category = "DISPUTE_OPEN"

\* the shape local@domain.tld: one @, no white space, a dot inside the part
\* after the @ with text on both sides
C19_EmailShape(email) ==
    LET parts == Split(email, "@") IN
    /\ Len(parts) = 2
    /\ parts[1] # ""
    /\ \A i \in 1..Len(email) : ~IsSpace(CharAt(email, i))
    /\ \E d \in 2..(Len(parts[2]) - 1) : CharAt(parts[2], d) = "."

\* the reasons of the checks the order's first row fails, in the fixed order
C19_FailedChecks(o, category, lenient) ==
    LET id == RawField(o, "Name")
        date == RawField(o, "Created at")
        email == RawField(o, "Email")
    IN (IF id = "" \/ \A i \in 1..Len(id) : ~IsDigit(CharAt(id, i))
        THEN <<"Invalid Order #">> ELSE <<>>)
       \o (IF date = "" \/ ~isValidDate(date, lenient) THEN <<"Invalid Date">> ELSE <<>>)
       \o (IF email = "" \/ ~C19_EmailShape(email) THEN <<"Invalid Email">> ELSE <<>>)
       \o (IF category = "AUTO" /\ RawField(o, "Tags") = ""
           THEN <<"Missing Tags">> ELSE <<>>)

\* C19: an order is INVALID if and only if its first row fails a check (id
\* empty or without digit, date empty or unparseable, email empty or not
\* local@domain.tld, tags empty in AUTO mode only), and import_error is the
\* comma-joined list of exactly the failed checks' reasons in the fixed order.
C19_InvalidIffCheckFails ==
    Parsed
    => \A i \in 1..Len(orders) :
          LET failed == C19_FailedChecks(orders[i], call.category, lenientDateParse) IN
          /\ orders[i].import_category = "INVALID" <=> failed # <<>>
          /\ failed # <<>> => orders[i].import_error = Join(failed, ", ")
          /\ failed = <<>> => orders[i].import_error = Undefined

\* C19 witness: a row failing all four checks was imported in AUTO mode
C19_Witness ==
    /\ Parsed
    /\ call.category = "AUTO"
    /\ Len(orders) = 1
    /\ RawField(orders[1], "Name") = "draft"
    /\ RawField(orders[1], "Created at") = "soon"
    /\ RawField(orders[1], "Email") = "a b@c.de"
    /\ RawField(orders[1], "Tags") = ""
    /\ orders[1].import_category = "INVALID"
    /\ orders[1].import_error = "Invalid Order #, Invalid Date, Invalid Email, Missing Tags"

(***************************************************************************)
(* Properties of the purge                                                 *)
(***************************************************************************)

\* this step is a purge by either entry point
C20_PurgeStep == call'.op \in {"clearAllImportedData", "handleClear"} /\ nops' = nops + 1

\* C20: after a purge succeeds for an owner no order row and no dispute row
\* of that owner remains and every row of every other owner is unchanged; a
\* purge step, failed or not, leaves each owner's order rows either all in
\* place or all gone, never a subset.
C20_PurgeIsTotalAndOwn ==
    [][C20_PurgeStep
       => /\ \A o \in Owners : db'[o] = db[o] \/ (o = user /\ db'[o] = <<>>)
          /\ \A o \in Owners \ {user} : disputes'[o] = disputes[o]
          /\ call'.error = ""
             => /\ user \in Owners
                /\ db'[user] = <<>>
                /\ disputes'[user] = <<>>
                /\ call'.deleted = DOMAIN db[user]]_vars

\* C20 witness: a purge succeeded for an owner who held order rows, and
\* another owner still holds order rows and a draft
C20_Witness ==
    /\ call.op = "clearAllImportedData"
    /\ call.error = ""
    /\ call.deleted # {}
    /\ db[call.owner] = <<>>
    /\ disputes[call.owner] = <<>>
    /\ \E o \in Owners \ {call.owner} : DOMAIN db[o] # {} /\ DOMAIN disputes[o] # {}

\* the marker tag of an explicit category
C21_Marker(category) ==
    CASE category = "DISPUTE_OPEN" -> "Import: Open Dispute"
      [] category = "DISPUTE_SUBMITTED" -> "Import: Submitted"
      [] category = "DISPUTE_WON" -> "Import: Won"
      [] category = "DISPUTE_LOST" -> "Import: Lost"
      [] category = "RISK" -> "Import: Fraud"

\* the tags of the order's first row as the file gives them
C21_RowTags(o) == tagsList(RawField(o, "Tags"))

\* C21: in explicit mode the order's tags are the row's tags followed by the
\* category's marker tag if the row does not carry it already, and the row's
\* tags alone if it does; in AUTO mode they are the row's tags alone.
C21_MarkerAddedOnce ==
    Parsed
    => \A i \in 1..Len(orders) :
          LET raw == C21_RowTags(orders[i]) IN
          orders[i].tags =
             IF call.category = "AUTO" THEN raw
             ELSE IF \E k \in 1..Len(raw) : raw[k] = C21_Marker(call.category) THEN raw
             ELSE raw \o <<C21_Marker(call.category)>>

\* C21 witness: a row already tagged "Import: Won" was imported as
\* DISPUTE_WON and carries the marker once
C21_Witness ==
    /\ Parsed
    /\ call.category = "DISPUTE_WON"
    /\ Len(orders) = 1
    /\ C21_RowTags(orders[1]) = <<"Import: Won", "Import: Fraud">>
    /\ orders[1].tags = <<"Import: Won", "Import: Fraud">>

\* the non-blank data rows of the file, each with its line number
C22_Rows(csvText) ==
    LET lines == C16_Lines(csvText)
        kept == {i \in 1..(Len(lines) - 1) : Trim(lines[i + 1]) # ""}
    IN [i \in kept |-> parseCSVLine(Trim(lines[i + 1]))]

\* the field of a data row under the column called name
C22_Field(csvText, row, name) ==
    LET header == parseCSVLine(C16_Lines(csvText)[1])
        cols == {n \in 1..Len(header) : ToLowerCase(Trim(header[n])) = ToLowerCase(name)}
    IN IF cols = {} THEN ""
       ELSE LET n == CHOOSE n \in cols : \A m \in cols : n <= m
            IN IF n <= Len(row) THEN Trim(row[n]) ELSE ""

\* the identifier a data row is grouped under
C22_Key(csvText, rows, i) ==
    IF C22_Field(csvText, rows[i], "Name") # "" THEN C22_Field(csvText, rows[i], "Name")
    ELSE "BAD-ROW-" \o ToString(i)

\* what a quantity field adds when only a positive integer counts
C22_WholeQty(q) == IF q # "" /\ AllDigits(q) THEN DigitsVal(q) ELSE 0

\* what a quantity field adds when its leading integer counts, as parseInt
\* reads "2.5" as 2 and "3 pcs" as 3
C22_LeadingQty(q) ==
    LET digits == DigitPrefix(IF Len(q) > 0 /\ CharAt(q, 1) = "+" THEN SubSeq(q, 2, Len(q))
                              ELSE q)
    IN IF digits = "" THEN 0 ELSE DigitsVal(digits)

RECURSIVE C22_Sum(_, _)
C22_Sum(S, f) ==
    IF S = {} THEN 0
    ELSE LET i == CHOOSE i \in S : TRUE IN f[i] + C22_Sum(S \ {i}, f)

\* the orders returned are one per identifier, no two with the same id, each
\* with the fields of the first row of its identifier
C22_OnePerIdentifier ==
    LET rows == C22_Rows(call.csvText)
        keys == {C22_Key(call.csvText, rows, i) : i \in DOMAIN rows}
    IN /\ {orders[k].id : k \in 1..Len(orders)} = keys
       /\ \A k, m \in 1..Len(orders) : orders[k].id = orders[m].id => k = m
       /\ \A k \in 1..Len(orders) :
             LET mine == {i \in DOMAIN rows : C22_Key(call.csvText, rows, i) = orders[k].id}
                 first == CHOOSE i \in mine : \A j \in mine : i <= j
             IN \A name \in {"Name", "Created at", "Email", "Tags", "Risk Level"} :
                   RawField(orders[k], name) = C22_Field(call.csvText, rows[first], name)

\* itemsCount of every order is the sum of qty over the rows of its identifier
C22_CountIs(qty) ==
    LET rows == C22_Rows(call.csvText) IN
    \A k \in 1..Len(orders) :
       LET mine == {i \in DOMAIN rows : C22_Key(call.csvText, rows, i) = orders[k].id}
       IN orders[k].itemsCount = C22_Sum(mine, qty)

C23_RoundTripEveryList ==
    call.op = "parseCSVLine" => call.returned = call.fields

\* C23 amended: parseCSVLine returns the original list for every list of at
\* least one field written quoted, inner quotes doubled, and joined with
\* commas, so a comma inside quotes never splits a field; the line written
\* for the empty list is read as one empty field.
C23_RoundTripNonEmptyList ==
    call.op = "parseCSVLine"
    => /\ call.fields # <<>> => call.returned = call.fields
       /\ call.fields = <<>> => call.returned = <<"">>

\* C23 witness: a field holding a comma and a field holding a quote came back
C23_Witness ==
    /\ call.op = "parseCSVLine"
    /\ call.fields = <<"a,", "\"">>
    /\ call.csvText = "\"a,\",\"\"\"\""
    /\ call.returned = <<"a,", "\"">>

(***************************************************************************)
(* Properties of overlapping saves                                         *)
(***************************************************************************)

\* C24: when two saveOrdersToDb invocations for one owner and one id overlap,
\* every write still leaves the row's latest_dispute_status at no lower a
\* rank than it had, its latest_risk_label not cleared, and every sources
\* entry already written in place.
C24_OverlapKeepsMergeInvariants ==
    [][\A u \in Owners : \A id \in DOMAIN db[u] \cap DOMAIN db'[u] :
          /\ statusRank(db'[u][id].latest_dispute_status)
                >= statusRank(db[u][id].latest_dispute_status)
          /\ db[u][id].latest_risk_label = "high" => db'[u][id].latest_risk_label = "high"
          /\ db[u][id].sources \subseteq db'[u][id].sources]_vars

(***************************************************************************)
(* Properties of a failed save                                             *)
(***************************************************************************)

\* C25: a call in which saveOrdersToDb fails changes no persisted record; a
\* call in which it succeeds stores every order of its batch; and a call
\* with an empty batch writes nothing.
C25_SaveAllOrNothing ==
    [][(nops' = nops + 1 /\ call'.op \in {"processImport", "loadAndSyncOrders"})
       => /\ call'.error # "" => (db' = db /\ call'.wrote = {})
          /\ call'.error = ""
             => /\ call'.wrote = BatchIds(orders')
                /\ \A i \in 1..Len(orders') :
                      /\ orders'[i].id \in DOMAIN db'[user]
                      /\ db'[user][orders'[i].id].data = orders'[i]
                /\ \A o \in Owners : \A id \in DOMAIN db[o] :
                      (o # user \/ id \notin call'.wrote)
                      => (id \in DOMAIN db'[o] /\ db'[o][id] = db[o][id])
                /\ orders' = <<>> => db' = db]_vars

\* C25 witness: an import failed at the upsert over a table that holds rows
C25_Witness ==
    /\ call.op = "processImport"
    /\ call.error = "upsertError"
    /\ call.wrote = {}
    /\ call.owner \in Owners
    /\ DOMAIN db[call.owner] # {}

(***************************************************************************)
(* Properties of the orders read back                                      *)
(***************************************************************************)

\* the order loadOrdersFromDb returns for id
C26_Loaded(table, id) ==
    LET loaded == loadOrdersFromDb(table)
    IN loaded[CHOOSE i \in 1..Len(loaded) : loaded[i].id = id]

\* C26: from one load to the next, the order loadOrdersFromDb returns for an
\* id never drops in dispute status rank and is never not high risk after
\* having been high risk.
C26_LoadedNeverRegresses ==
    [][\A u \in Owners : \A id \in DOMAIN db[u] \cap DOMAIN db'[u] :
          LET before == C26_Loaded(db[u], id)
              after == C26_Loaded(db'[u], id)
          IN /\ statusRank(mapDisputeStatus(after.disputeStatus))
                   >= statusRank(mapDisputeStatus(before.disputeStatus))
             /\ before.isHighRisk => after.isHighRisk]_vars

(***************************************************************************)
(* Properties of the stored record                                         *)
(***************************************************************************)

\* the rank of an order's disputeStatus
C27_SnapshotRank(order) ==
    CASE order.disputeStatus = "Needs Response" -> 1
      [] order.disputeStatus = "Under Review" -> 2
      [] order.disputeStatus \in {"Won", "Lost"} -> 3
      [] OTHER -> 0

\* C27: in every stored state each record's merged fields dominate its
\* snapshot: the rank of latest_dispute_status is at least the rank of the
\* snapshot's disputeStatus, latest_risk_label is high whenever the
\* snapshot's isHighRisk is true, and sources holds the source derived from
\* the snapshot.
C27_MergedDominatesSnapshot ==
    \A u \in Owners : \A id \in DOMAIN db[u] :
       /\ db[u][id].data.id = id
       /\ statusRank(db[u][id].latest_dispute_status) >= C27_SnapshotRank(db[u][id].data)
       /\ db[u][id].data.isHighRisk => db[u][id].latest_risk_label = "high"
       /\ C4_DerivedSource(db[u][id].data) \in db[u][id].sources

\* C27 witness: after two saves, a record whose merged fields are strictly
\* above its snapshot: a higher status and a high label over a snapshot not
\* high risk
C27_Witness ==
    \E u \in Owners : \E id \in DOMAIN db[u] :
        /\ Len(saved[u]) = 2
        /\ statusRank(db[u][id].latest_dispute_status) > C27_SnapshotRank(db[u][id].data)
        /\ db[u][id].latest_risk_label = "high"
        /\ ~db[u][id].data.isHighRisk
        /\ "orders" \in db[u][id].sources

(***************************************************************************)
(* Properties of revalidation                                              *)
(***************************************************************************)

\* validateOrder leaves the order as it is
C28_Settled(order) == validateOrder(order, lenientDateParse) = order

C29_ImportedRisk(category, nativeRisk) ==
    category \in {"DISPUTE_OPEN", "RISK"} \/ nativeRisk

\* C29: an order recovered from quarantine with a concrete original_category
\* has the disputeStatus and the isHighRisk that parseShopifyCSV gives a
\* valid row of the same native risk hint imported with that category.
C29_RecoveryMatchesImport ==
    [][(nops' = nops + 1 /\ call'.op \in {"validateOrder", "applyFixesAndRevalidate"})
       => \A i \in 1..Len(orders) :
             (/\ orders[i].import_category = "INVALID"
              /\ orders'[i].import_category # "INVALID"
              /\ orders[i].original_category
                    \in {"RISK", "DISPUTE_OPEN", "DISPUTE_SUBMITTED", "DISPUTE_WON",
                         "DISPUTE_LOST"})
             => /\ orders'[i].disputeStatus = C11_StatusOf(orders[i].original_category)
                /\ orders'[i].isHighRisk
                      = C29_ImportedRisk(orders[i].original_category,
                                         NativeRiskHint(orders'[i]))]_vars

(***************************************************************************)
(* Tag detection against the classifier                                    *)
(***************************************************************************)

C30_DisputeCategories ==
    {"DISPUTE_OPEN", "DISPUTE_SUBMITTED", "DISPUTE_WON", "DISPUTE_LOST"}

\* C30: determineCategoryFromTags, as forceApproveOrder runs it on an order
\* parseShopifyCSV classified in AUTO mode, finds a dispute category exactly
\* when the classifier gave the order one, and then gives the same category
\* and dispute status.
C30_DetectionMatchesClassifier ==
    [][(/\ nops' = nops + 1
        /\ call'.op = "forceApproveOrder"
        /\ Parsed
        /\ call.category = "AUTO"
        /\ orders[1].import_category # "INVALID")
       => /\ call'.error = "" <=> orders[1].import_category \in C30_DisputeCategories
          /\ call'.error = ""
             => /\ orders'[1].import_category = orders[1].import_category
                /\ orders'[1].disputeStatus = orders[1].disputeStatus]_vars

====
